---- MODULE Spec2Model ----
(***************************************************************************)
(* Model of common/cgroup/cgroup.go: construction of the cgroup hierarchy  *)
(* under a root (CreateLegacyCgroups, CreateCgroups) and its lockdown      *)
(* (RemountLegacyCgroupsRO, RemountCgroupsRO, mountFsRO, fixCpusetKnobs),  *)
(* specification Spec; and its queries and helpers, each called once with  *)
(* any input (GetEnabledLegacyCgroups, IsIsolatorSupported, addCpuLimit,   *)
(* addMemoryLimit, MaybeAddIsolator, GetLegacyCgroupPathByPid,             *)
(* GetCgroupPathByPid, getLegacyControllerSymlinks,                        *)
(* getLegacyControllerRWFiles, JoinLegacySubcgroup, JoinSubcgroup), with   *)
(* the command line parser that stands in the same file (parseApps, the    *)
(* Set of the image type flags), specification SpecRoutines.               *)
(*                                                                         *)
(* A Go string is a sequence of symbols: a controller name, a file name   *)
(* or a path component is one symbol, "," is a symbol of its own, so that  *)
(* strings.Join and strings.Split are computed and not assumed.  A path    *)
(* is a sequence of components, each component a string.  The arguments    *)
(* of a command line and the messages of its errors are whole strings.     *)
(*                                                                         *)
(* Every system call of a routine is one step; its result is drawn from    *)
(* what the kernel can answer in the current state of the mount table      *)
(* (EBUSY, EROFS, ENOENT, EEXIST) or is an injected failure (EPERM, EIO).  *)
(***************************************************************************)
EXTENDS Integers, Sequences, FiniteSets, TLC

VARIABLES
    enabledCgroups,  \* argument: hierarchy id -> sequence of controller names
    mountContext,    \* argument of CreateLegacyCgroups
    subcgroup,       \* argument of the lockdown routines (a relative path)
    serviceNames,    \* argument of the lockdown routines
    absent,          \* file names the running kernel does not provide
    controllers,     \* local: result of GetLegacyControllerDirs in the running call
    pending,         \* local: symlink names CreateLegacyCgroups has still to create
    pc,              \* position of the running call
    ops,             \* the file-system operations of the running (or last) call, in order
    before,          \* the mount table when the running (or last) call began
    mounts,          \* kernel: the mount table, oldest first
    dirs,            \* kernel: directories created so far
    links,           \* kernel: symlinks created so far
    configured,      \* kernel: cpuset knob files that hold a value
    results,         \* the calls that returned, in order, with their error
    faults,          \* number of injected failures so far
    call,            \* a query or helper routine under way: its name and its inputs
    ret              \* what that routine has done and returned so far

vars == <<enabledCgroups, mountContext, subcgroup, serviceNames, absent,
          controllers, pending, pc, ops, before, mounts, dirs, links, configured,
          results, faults, call, ret>>

----------------------------------------------------------------------------
(* Bounds of the model *)

MaxHier == 2
MaxServices == 1
MaxAbsent == 1
MaxFaults == 1
MaxLockdowns == 2

----------------------------------------------------------------------------
(* Strings and paths *)

RECURSIVE Join(_, _)
Join(elems, sep) ==
    IF elems = <<>> THEN <<>>
    ELSE IF Len(elems) = 1 THEN elems[1]
    ELSE elems[1] \o <<sep>> \o Join(Tail(elems), sep)

RECURSIVE SplitAcc(_, _, _)
SplitAcc(s, sep, cur) ==
    IF s = <<>> THEN <<cur>>
    ELSE IF Head(s) = sep THEN <<cur>> \o SplitAcc(Tail(s), sep, <<>>)
    ELSE SplitAcc(Tail(s), sep, Append(cur, Head(s)))

Split(s, sep) == SplitAcc(s, sep, <<>>)

IsPrefix(p, q) == Len(p) <= Len(q) /\ SubSeq(q, 1, Len(p)) = p

Dir(p) == SubSeq(p, 1, Len(p) - 1)

Base(p) == p[Len(p)]

\* strings.TrimSuffix(path, "/" + name): the path loses its last component
\* when that component is name and something precedes it.
TrimSuffixComponent(p, name) ==
    IF Len(p) > 1 /\ Base(p) = name THEN Dir(p) ELSE p

SeqRange(s) == {s[i] : i \in DOMAIN s}

Perms(S) == {q \in [1..Cardinality(S) -> S] : SeqRange(q) = S}

----------------------------------------------------------------------------
(* Paths of the tree *)

Root == << <<"rootfs">> >>

SysPath == Root \o << <<"sys">> >>

CgroupTmpfs == Root \o << <<"sys">>, <<"fs">>, <<"cgroup">> >>

SystemdControllerPath == CgroupTmpfs \o << <<"systemd">> >>

MachinePath == CgroupTmpfs \o << <<"machine.slice">> >>

ControllerPath(c) == CgroupTmpfs \o <<c>>

LegacySubcgroupPath(c) == ControllerPath(c) \o subcgroup \o << <<"system.slice">> >>

AppCgroup(c, s) == LegacySubcgroupPath(c) \o <<s>>

CgroupFilePath(c, s, f) == AppCgroup(c, s) \o <<f>>

UnifiedSubcgroupPath == CgroupTmpfs \o subcgroup

MachineDir == TrimSuffixComponent(UnifiedSubcgroupPath, <<"system.slice">>)

CgroupPathFix(cPath) == cPath \o << <<"system.slice">> >>

Knobs == << <<"cpuset.mems">>, <<"cpuset.cpus">> >>

----------------------------------------------------------------------------
(* Tables and pure functions of the package *)

LegacyRWKeys == { <<"memory">>, <<"cpu">>, <<"devices">> }

legacyCgroupControllerRWFiles ==
    [k \in LegacyRWKeys |->
        CASE k = <<"memory">> -> << <<"memory.limit_in_bytes">> >>
          [] k = <<"cpu">> -> << <<"cpu.cfs_quota_us">> >>
          [] k = <<"devices">> -> << <<"devices.allow">>, <<"devices.deny">> >>]

CgroupRWKeys == { <<"memory">> }

cgroupControllerRWFiles ==
    [k \in CgroupRWKeys |->
        << <<"memory.low">>, <<"memory.high">>, <<"memory.max">>, <<"memory.swap.max">> >>]

\* GetLegacyControllerDirs: one directory name per hierarchy, in the order the
\* map is iterated (order: a permutation of the map's keys).
GetLegacyControllerDirs(cgroups, order) ==
    [i \in 1..Len(order) |-> Join(cgroups[order[i]], ",")]

RECURSIVE SymlinksAcc_Singles(_, _, _)
SymlinksAcc_Singles(cgroups, order, acc) ==
    IF order = <<>> THEN acc
    ELSE LET cs == cgroups[Head(order)]
             tgt == Join(cs, ",")
             next == [ln \in (DOMAIN acc) \cup SeqRange(cs) |->
                         IF ln \in SeqRange(cs) THEN tgt ELSE acc[ln]]
         IN SymlinksAcc_Singles(cgroups, Tail(order), next)

RECURSIVE SymlinksAcc(_, _, _)
SymlinksAcc(cgroups, order, acc) ==
    IF order = <<>> THEN acc
    ELSE LET cs == cgroups[Head(order)]
             tgt == Join(cs, ",")
             next == IF Len(cs) > 1
                     THEN [ln \in (DOMAIN acc) \cup SeqRange(cs) |->
                              IF ln \in SeqRange(cs) THEN tgt ELSE acc[ln]]
                     ELSE acc
         IN SymlinksAcc(cgroups, Tail(order), next)

\* getLegacyControllerSymlinks: link name -> target.
getLegacyControllerSymlinks(cgroups, order) == SymlinksAcc(cgroups, order, <<>>)

RECURSIVE RWFilesScan(_)
RWFilesScan(parts) ==
    IF parts = <<>> THEN <<>>
    ELSE IF Head(parts) \in DOMAIN legacyCgroupControllerRWFiles
         THEN Append(legacyCgroupControllerRWFiles[Head(parts)], <<"cgroup.procs">>)
         ELSE RWFilesScan(Tail(parts))

getLegacyControllerRWFiles(controller) == RWFilesScan(Split(controller, ","))

getControllersRWFiles ==
    << <<"cgroup.procs">>, <<"cgroup.controllers">>, <<"cgroup.subtree_control">>,
       <<"cgroup.events">> >> \o cgroupControllerRWFiles[<<"memory">>]

SysfsFlags == {"MS_NOSUID", "MS_NOEXEC", "MS_NODEV"}

TmpfsFlags == {"MS_NOSUID", "MS_NOEXEC", "MS_NODEV", "MS_STRICTATIME"}

BindFlags == {"MS_BIND"}

\* the remount flags without MS_RDONLY
mountFsROFlags_NoRdonly == {"MS_BIND", "MS_REMOUNT", "MS_NOSUID", "MS_NOEXEC", "MS_NODEV"}

mountFsROFlags ==
    {"MS_BIND", "MS_REMOUNT", "MS_NOSUID", "MS_NOEXEC", "MS_NODEV", "MS_RDONLY"}

TmpfsOptions(ctx) ==
    IF ctx = <<>> THEN <<"mode=755">>
    ELSE <<"mode=755,context=", "\"">> \o ctx \o <<"\"">>

----------------------------------------------------------------------------
(* The kernel: mount table, directories, files *)

\* The mount table: mount point -> the mounts stacked there, oldest first.
\* The mount that decides a path's flags is the newest one at the deepest mount
\* point that is a prefix of the path (<<>>: the path lies in no mount).
CoveringPoint(tbl, p) ==
    LET on == {m \in DOMAIN tbl : IsPrefix(m, p)}
    IN IF on = {} THEN <<>>
       ELSE CHOOSE m \in on : \A n \in on : Len(n) <= Len(m)

NoMount == [fstype |-> "rootfs", data |-> <<>>, ro |-> FALSE, bind |-> FALSE]

CoveringMount(tbl, p) ==
    LET m == CoveringPoint(tbl, p)
    IN IF m = <<>> THEN NoMount ELSE tbl[m][Len(tbl[m])]

WritableIn(tbl, p) == ~CoveringMount(tbl, p).ro

Writable(p) == WritableIn(mounts, p)

IsMountPoint(p) == p \in DOMAIN mounts

FsTypeAt(p) == CoveringMount(mounts, p).fstype

FsDataAt(p) == CoveringMount(mounts, p).data

\* Files the kernel shows in every directory of a hierarchy with these controllers.
KernelFilesOf(name) ==
    CASE name = <<"memory">> -> { <<"memory.limit_in_bytes">> }
      [] name = <<"cpu">> -> { <<"cpu.cfs_quota_us">> }
      [] name = <<"devices">> -> { <<"devices.allow">>, <<"devices.deny">> }
      [] name = <<"cpuset">> -> { <<"cpuset.mems">>, <<"cpuset.cpus">> }
      [] OTHER -> {}

LegacyKernelFiles(data) ==
    { <<"cgroup.procs">>, <<"tasks">> }
        \cup UNION {KernelFilesOf(n) : n \in SeqRange(Split(data, ","))}

UnifiedKernelFiles == SeqRange(getControllersRWFiles) \cup { <<"cgroup.freeze">> }

DirExists(p) ==
    \/ IsPrefix(p, Root)
    \/ p \in dirs
    \/ /\ FsTypeAt(p) = "sysfs"
       /\ IsPrefix(p, CgroupTmpfs)

FileExists(p) ==
    /\ Len(p) > 1
    /\ DirExists(Dir(p))
    /\ Base(p) \notin absent
    /\ \/ FsTypeAt(p) = "cgroup" /\ Base(p) \in LegacyKernelFiles(FsDataAt(p))
       \/ FsTypeAt(p) = "cgroup2" /\ Base(p) \in UnifiedKernelFiles

PathExists(p) == DirExists(p) \/ FileExists(p) \/ p \in {l.name : l \in links}

\* os.MkdirAll: nil when the directory is there, else every missing ancestor is
\* created, which needs a writable file system.
MkdirAllResult(p) ==
    IF DirExists(p) THEN "ok"
    ELSE IF ~Writable(p) THEN "EROFS"
    ELSE "ok"

DirsAfterMkdirAll(p) == dirs \cup {SubSeq(p, 1, k) : k \in 1..Len(p)}

\* os.Stat
StatResult(p) == IF PathExists(p) THEN "ok" ELSE "ENOENT"

\* os.Symlink
SymlinkResult(lnPath) ==
    IF PathExists(lnPath) THEN "EEXIST"
    ELSE IF ~Writable(lnPath) THEN "EROFS"
    ELSE "ok"

\* mount(2): what the kernel answers in the current state.
MountResult(src, target, fstype, flags) ==
    IF "MS_REMOUNT" \in flags
    THEN IF IsMountPoint(target) THEN "ok" ELSE "EINVAL"
    ELSE IF "MS_BIND" \in flags
    THEN IF PathExists(src) /\ PathExists(target) THEN "ok" ELSE "ENOENT"
    ELSE IF ~DirExists(target) THEN "ENOENT"
    ELSE IF fstype = "sysfs" /\ IsMountPoint(target) /\ FsTypeAt(target) = "sysfs"
    THEN "EBUSY"
    ELSE "ok"

\* mount(2): the mount table after a successful call.  A remount changes the
\* flags of the mount at the target; a bind mount is a new mount carrying the
\* flags of the mount its source lies in; any other call mounts a new file system.
Stacked(tbl, target, m) ==
    [p \in (DOMAIN tbl) \cup {target} |->
        IF p = target
        THEN (IF target \in DOMAIN tbl THEN Append(tbl[target], m) ELSE <<m>>)
        ELSE tbl[p]]

MountsAfter(src, target, fstype, flags, data) ==
    IF "MS_REMOUNT" \in flags
    THEN [mounts EXCEPT ![target][Len(mounts[target])].ro = ("MS_RDONLY" \in flags)]
    ELSE IF "MS_BIND" \in flags
    THEN Stacked(mounts, target, [CoveringMount(mounts, src) EXCEPT !.bind = TRUE])
    ELSE Stacked(mounts, target, [fstype |-> fstype, data |-> data,
                                  ro |-> ("MS_RDONLY" \in flags), bind |-> FALSE])

\* ioutil.WriteFile on an existing cgroup file
WriteResult(p) ==
    IF ~FileExists(p) /\ ~DirExists(Dir(p)) THEN "ENOENT"
    ELSE IF ~Writable(p) THEN "EROFS"
    ELSE "ok"

----------------------------------------------------------------------------
(* The routines as sequences of steps *)

\* the tmpfs remounted read-only before the controllers are mounted in it
CreateLegacyCgroupsOrder_EarlyRO ==
    <<"MkdirSys", "MountSysfs", "MkdirTmpfs", "MountTmpfs", "RemountTmpfsRO",
      "MountControllers", "Symlinks", "MkdirSystemd">>

CreateLegacyCgroupsOrder ==
    <<"MkdirSys", "MountSysfs", "MkdirTmpfs", "MountTmpfs", "MountControllers",
      "Symlinks", "MkdirSystemd", "RemountTmpfsRO">>

\* machine.slice created before the cgroup2 file system is mounted
CreateCgroupsOrder_MachineFirst ==
    <<"MkdirSys", "MountSysfs", "MkdirCgroupFs", "MkdirMachine", "MountCgroup2">>

CreateCgroupsOrder ==
    <<"MkdirSys", "MountSysfs", "MkdirCgroupFs", "MountCgroup2", "MkdirMachine">>

\* <root>/sys remounted read-only before the controllers are handled
RemountLegacyCgroupsROOrder_SysFirst == <<"RemountSysRO", "LockControllers">>

RemountLegacyCgroupsROOrder == <<"LockControllers", "RemountSysRO">>

\* the read-only remount moved in front of the loop over the services
ControllerLockOrder_RemountFirst == <<"FixCpuset", "RemountControllerRO", "Services">>

\* body of the loop over the controllers in RemountLegacyCgroupsRO
ControllerLockOrder == <<"FixCpuset", "Services", "RemountControllerRO">>

RemountCgroupsROOrder ==
    <<"MkdirSubcgroup", "BindMachineDir", "RemountCgroupFsRO", "RemountSysRO">>

OrderOf(fn) ==
    CASE fn = "CreateLegacyCgroups" -> CreateLegacyCgroupsOrder
      [] fn = "CreateCgroups" -> CreateCgroupsOrder
      [] fn = "RemountLegacyCgroupsRO" -> RemountLegacyCgroupsROOrder
      [] fn = "RemountCgroupsRO" -> RemountCgroupsROOrder

Idle == [fn |-> "idle", phase |-> 0, ci |-> 0, body |-> 0, si |-> 0, fi |-> 0,
         ki |-> 0, sub |-> "-"]

\* an error check that lets EBUSY pass everywhere
ErrNotNil_BusyTolerated(res) == res # "ok" /\ res # "EBUSY"

\* err != nil
ErrNotNil(res) == res # "ok"

\* a check that does not let EBUSY pass
SysfsMountFails_Strict(res) == res # "ok"

\* err != nil && err != syscall.EBUSY
SysfsMountFails(res) == res # "ok" /\ res # "EBUSY"

\* a check that never recognises a missing file
IsNotExist_Never(res) == FALSE

\* os.IsNotExist(err)
IsNotExist(res) == res = "ENOENT"

\* Position of the next system call: loops that have nothing (left) to do are
\* left, a routine whose steps are all done returns (Idle).
\* env: [ctrls: the controller directories, nlinks: symlinks still to create,
\*       svcs: the service names]
RECURSIVE EnterPhase(_, _, _), EnterCtrlBody(_, _, _), EnterService(_, _, _)

EnterPhase(fn, k, env) ==
    IF k > Len(OrderOf(fn)) THEN Idle
    ELSE LET ph == OrderOf(fn)[k]
             base == [Idle EXCEPT !.fn = fn, !.phase = k]
         IN CASE ph = "MountControllers" ->
                   IF env.ctrls = <<>> THEN EnterPhase(fn, k + 1, env)
                   ELSE [base EXCEPT !.ci = 1, !.sub = "MkdirController"]
              [] ph = "Symlinks" ->
                   IF env.nlinks = 0 THEN EnterPhase(fn, k + 1, env)
                   ELSE [base EXCEPT !.sub = "Symlink"]
              [] ph = "LockControllers" ->
                   IF env.ctrls = <<>> THEN EnterPhase(fn, k + 1, env)
                   ELSE EnterCtrlBody([base EXCEPT !.ci = 1], 1, env)
              [] OTHER -> [base EXCEPT !.sub = ph]

EnterCtrlBody(p, j, env) ==
    IF j > Len(ControllerLockOrder)
    THEN IF p.ci + 1 > Len(env.ctrls)
         THEN EnterPhase(p.fn, p.phase + 1, env)
         ELSE EnterCtrlBody([p EXCEPT !.ci = p.ci + 1, !.body = 0, !.si = 0,
                                      !.fi = 0, !.ki = 0], 1, env)
    ELSE LET q == [p EXCEPT !.body = j, !.si = 0, !.fi = 0, !.ki = 0]
         IN CASE ControllerLockOrder[j] = "FixCpuset" ->
                   IF env.ctrls[p.ci] = <<"cpuset">>
                   THEN [q EXCEPT !.sub = "FixMkdir"]
                   ELSE EnterCtrlBody(p, j + 1, env)
              [] ControllerLockOrder[j] = "Services" -> EnterService(q, 1, env)
              [] OTHER -> [q EXCEPT !.sub = "RemountControllerRO"]

EnterService(p, s, env) ==
    IF s > Len(env.svcs) THEN EnterCtrlBody(p, p.body + 1, env)
    ELSE [p EXCEPT !.si = s, !.fi = 0, !.sub = "MkdirApp"]

EnterFile(p, f, env) ==
    IF f > Len(getLegacyControllerRWFiles(env.ctrls[p.ci]))
    THEN EnterService(p, p.si + 1, env)
    ELSE [p EXCEPT !.fi = f, !.sub = "StatFile"]

EnterKnob(p, k, env) ==
    IF k > Len(Knobs) THEN EnterCtrlBody(p, p.body + 1, env)
    ELSE [p EXCEPT !.ki = k, !.sub = "ReadChild"]

Env == [ctrls |-> controllers, nlinks |-> Cardinality(DOMAIN pending),
        svcs |-> serviceNames]

NextPhase == EnterPhase(pc.fn, pc.phase + 1, Env)

----------------------------------------------------------------------------
(* One system call *)

Op(kind, src, target, fstype, flags, data, res) ==
    [fn |-> pc.fn, step |-> pc.sub, op |-> kind, src |-> src,
     path |-> target, fstype |-> fstype, flags |-> flags, data |-> data, res |-> res]

\* What a call can return: the kernel's answer kr in the current state, or,
\* when the kernel would let it succeed, an injected failure.
Outcomes(kr, injected) ==
    {kr} \cup (IF kr = "ok" /\ faults < MaxFaults THEN injected ELSE {})

MountFaults == {"EBUSY", "EPERM"}

\* sysfs answers EBUSY exactly when it is mounted there already
SysfsFaults == {"EPERM"}

FileFaults == {"EPERM"}

ReadFaults == {"EIO"}

\* what a system call can answer
Results == {"ok", "EBUSY", "EPERM", "EIO", "EROFS", "ENOENT", "EEXIST", "EINVAL"}

\* if err != nil { return err }
IfErr == {r \in Results : ErrNotNil(r)}

\* if err != nil && err != syscall.EBUSY { return err }
IfErrNotBusy == {r \in Results : SysfsMountFails(r)}

\* no error is dropped
Ignored_Returned == {r \in Results : r # "ok"}

\* the error is dropped
Ignored == {}

\* The call is made, recorded and takes effect; an answer in fatal makes the
\* routine return it, after any other the routine goes on at next[answer].
SysCallP(kind, src, target, fstype, flags, data, kr, injected, fatal, next, pend) ==
    \E res \in Outcomes(kr, injected) :
        /\ ops' = Append(ops, Op(kind, src, target, fstype, flags, data, res))
        /\ faults' = IF res = kr THEN faults ELSE faults + 1
        /\ before' = before
        /\ mounts' = IF kind = "mount" /\ res = "ok"
                     THEN MountsAfter(src, target, fstype, flags, data) ELSE mounts
        /\ dirs' = IF kind = "mkdir" /\ res = "ok"
                   THEN DirsAfterMkdirAll(target) ELSE dirs
        /\ links' = IF kind = "symlink" /\ res = "ok"
                    THEN links \cup {[name |-> target, tgt |-> data]} ELSE links
        /\ configured' = IF kind = "write" /\ res = "ok" /\ data # <<>>
                         THEN configured \cup {target} ELSE configured
        /\ IF res \in fatal
           THEN /\ pc' = Idle
                /\ results' = Append(results, [fn |-> pc.fn, err |-> res])
           ELSE /\ pc' = next[res]
                /\ results' = IF next[res].fn = "idle"
                              THEN Append(results, [fn |-> pc.fn, err |-> "nil"])
                              ELSE results
        \* the locals die with the call
        /\ controllers' = IF pc'.fn = "idle" THEN <<>> ELSE controllers
        /\ pending' = IF pc'.fn = "idle" THEN <<>> ELSE pend

SysCall(kind, src, target, fstype, flags, data, kr, injected, fatal, next) ==
    SysCallP(kind, src, target, fstype, flags, data, kr, injected, fatal, next, pending)

MkdirAll(target, next) ==
    SysCall("mkdir", <<>>, target, "", {}, <<>>, MkdirAllResult(target), FileFaults,
            IfErr, next)

Mount(src, target, fstype, flags, data, fatal, next) ==
    SysCall("mount", src, target, fstype, flags, data,
            MountResult(src, target, fstype, flags),
            IF fstype = "sysfs" THEN SysfsFaults ELSE MountFaults, fatal, next)

\* mountFsRO(mountPoint)
mountFsRO(mountPoint, next) ==
    Mount(mountPoint, mountPoint, "", mountFsROFlags, <<>>, IfErr, next)

At(fn, sub) == pc.fn = fn /\ pc.sub = sub

\* (the hierarchy routines never touch the query and helper routines' call)
Args == <<enabledCgroups, mountContext, subcgroup, serviceNames, absent, call, ret>>

----------------------------------------------------------------------------
(* CreateLegacyCgroups(root, enabledCgroups, mountContext) *)

CL == "CreateLegacyCgroups"

CreateLegacy_MkdirSys ==
    /\ At(CL, "MkdirSys")
    /\ MkdirAll(SysPath, [r \in Results |-> NextPhase])
    /\ UNCHANGED Args

CreateLegacy_MountSysfs ==
    /\ At(CL, "MountSysfs")
    /\ Mount(<< <<"sysfs">> >>, SysPath, "sysfs", SysfsFlags, <<>>,
             IfErrNotBusy, [r \in Results |-> NextPhase])
    /\ UNCHANGED Args

CreateLegacy_MkdirTmpfs ==
    /\ At(CL, "MkdirTmpfs")
    /\ MkdirAll(CgroupTmpfs, [r \in Results |-> NextPhase])
    /\ UNCHANGED Args

CreateLegacy_MountTmpfs ==
    /\ At(CL, "MountTmpfs")
    /\ Mount(<< <<"tmpfs">> >>, CgroupTmpfs, "tmpfs", TmpfsFlags,
             TmpfsOptions(mountContext), IfErr, [r \in Results |-> NextPhase])
    /\ UNCHANGED Args

CreateLegacy_MkdirController ==
    /\ At(CL, "MkdirController")
    /\ MkdirAll(ControllerPath(controllers[pc.ci]),
                [r \in Results |-> [pc EXCEPT !.sub = "MountController"]])
    /\ UNCHANGED Args

CreateLegacy_MountController ==
    /\ At(CL, "MountController")
    /\ LET c == controllers[pc.ci]
       IN Mount(<< <<"cgroup">> >>, ControllerPath(c), "cgroup", SysfsFlags, c, IfErr,
                [r \in Results |-> IF pc.ci < Len(controllers)
                                   THEN [pc EXCEPT !.ci = pc.ci + 1, !.sub = "MkdirController"]
                                   ELSE NextPhase])
    /\ UNCHANGED Args

\* for ln, tgt := range symlinks: the map is walked in any order
CreateLegacy_Symlink ==
    /\ At(CL, "Symlink")
    /\ \E ln \in DOMAIN pending :
         LET lnPath == CgroupTmpfs \o <<ln>>
             rest == [l \in (DOMAIN pending) \ {ln} |-> pending[l]]
         IN SysCallP("symlink", <<>>, lnPath, "", {}, pending[ln],
                     SymlinkResult(lnPath), FileFaults, IfErr,
                     [r \in Results |-> IF DOMAIN rest = {}
                                        THEN EnterPhase(pc.fn, pc.phase + 1, Env)
                                        ELSE pc],
                     rest)
    /\ UNCHANGED Args

CreateLegacy_MkdirSystemd ==
    /\ At(CL, "MkdirSystemd")
    /\ MkdirAll(SystemdControllerPath, [r \in Results |-> NextPhase])
    /\ UNCHANGED Args

CreateLegacy_RemountTmpfsRO ==
    /\ At(CL, "RemountTmpfsRO")
    /\ mountFsRO(CgroupTmpfs, [r \in Results |-> NextPhase])
    /\ UNCHANGED Args

----------------------------------------------------------------------------
(* CreateCgroups(root) *)

CC == "CreateCgroups"

CreateCgroups_MkdirSys ==
    /\ At(CC, "MkdirSys")
    /\ MkdirAll(SysPath, [r \in Results |-> NextPhase])
    /\ UNCHANGED Args

CreateCgroups_MountSysfs ==
    /\ At(CC, "MountSysfs")
    /\ Mount(<< <<"sysfs">> >>, SysPath, "sysfs", SysfsFlags, <<>>,
             IfErr, [r \in Results |-> NextPhase])
    /\ UNCHANGED Args

CreateCgroups_MkdirCgroupFs ==
    /\ At(CC, "MkdirCgroupFs")
    /\ MkdirAll(CgroupTmpfs, [r \in Results |-> NextPhase])
    /\ UNCHANGED Args

CreateCgroups_MountCgroup2 ==
    /\ At(CC, "MountCgroup2")
    /\ Mount(<< <<"cgroup2">> >>, CgroupTmpfs, "cgroup2", TmpfsFlags, <<>>,
             IfErr, [r \in Results |-> NextPhase])
    /\ UNCHANGED Args

CreateCgroups_MkdirMachine ==
    /\ At(CC, "MkdirMachine")
    /\ MkdirAll(MachinePath, [r \in Results |-> NextPhase])
    /\ UNCHANGED Args

----------------------------------------------------------------------------
(* RemountLegacyCgroupsRO(root, enabledCgroups, subcgroup, serviceNames) *)

RL == "RemountLegacyCgroupsRO"

CurController == controllers[pc.ci]

CurCPath == ControllerPath(CurController)

CurChildFile == CgroupPathFix(CurCPath) \o <<Knobs[pc.ki]>>

CurParentFile == Dir(CgroupPathFix(CurCPath)) \o <<Knobs[pc.ki]>>

CurAppCgroup == AppCgroup(CurController, serviceNames[pc.si])

CurCgroupFilePath ==
    CurAppCgroup \o <<getLegacyControllerRWFiles(CurController)[pc.fi]>>

FileContent(p) == IF p \in configured THEN <<"0">> ELSE <<>>

ParentKnobData == <<"0">>

ReadResult(p) == IF FileExists(p) THEN "ok" ELSE "ENOENT"

\* fixCpusetKnobs: _ = os.MkdirAll(cgroupPathFix, 0755)
fixCpusetKnobs_Mkdir ==
    /\ At(RL, "FixMkdir")
    /\ SysCall("mkdir", <<>>, CgroupPathFix(CurCPath), "", {}, <<>>,
               MkdirAllResult(CgroupPathFix(CurCPath)), FileFaults, Ignored,
               [r \in Results |-> EnterKnob(pc, 1, Env)])
    /\ UNCHANGED Args

fixCpusetKnobs_ReadChild ==
    /\ At(RL, "ReadChild")
    /\ SysCall("read", <<>>, CurChildFile, "", {}, FileContent(CurChildFile),
               ReadResult(CurChildFile), ReadFaults, Ignored,
               [r \in Results |-> IF r # "ok" \/ FileContent(CurChildFile) # <<>>
                                  THEN EnterKnob(pc, pc.ki + 1, Env)
                                  ELSE [pc EXCEPT !.sub = "ReadParent"]])
    /\ UNCHANGED Args

fixCpusetKnobs_ReadParent ==
    /\ At(RL, "ReadParent")
    /\ SysCall("read", <<>>, CurParentFile, "", {}, ParentKnobData,
               ReadResult(CurParentFile), ReadFaults, Ignored,
               [r \in Results |-> IF r = "ok" THEN [pc EXCEPT !.sub = "Write1"]
                                  ELSE EnterKnob(pc, pc.ki + 1, Env)])
    /\ UNCHANGED Args

fixCpusetKnobs_Write1 ==
    /\ At(RL, "Write1")
    /\ SysCall("write", <<>>, CurChildFile, "", {}, ParentKnobData,
               WriteResult(CurChildFile), FileFaults, Ignored,
               [r \in Results |-> [pc EXCEPT !.sub = "Write2"]])
    /\ UNCHANGED Args

fixCpusetKnobs_Write2 ==
    /\ At(RL, "Write2")
    /\ SysCall("write", <<>>, CurChildFile, "", {}, ParentKnobData,
               WriteResult(CurChildFile), FileFaults, Ignored,
               [r \in Results |-> EnterKnob(pc, pc.ki + 1, Env)])
    /\ UNCHANGED Args

\* os.Mkdir in the place of os.MkdirAll: an existing directory is an error
MkdirAppResult_Mkdir(appCgroup) ==
    IF DirExists(appCgroup) THEN "EEXIST" ELSE MkdirAllResult(appCgroup)

\* os.MkdirAll(appCgroup, 0755)
MkdirAppResult(appCgroup) == MkdirAllResult(appCgroup)

RemountLegacy_MkdirApp ==
    /\ At(RL, "MkdirApp")
    /\ SysCall("mkdir", <<>>, CurAppCgroup, "", {}, <<>>, MkdirAppResult(CurAppCgroup),
               FileFaults, IfErr, [r \in Results |-> EnterFile(pc, 1, Env)])
    /\ UNCHANGED Args

RemountLegacy_StatFile ==
    /\ At(RL, "StatFile")
    /\ SysCall("stat", <<>>, CurCgroupFilePath, "", {}, <<>>,
               StatResult(CurCgroupFilePath), {}, Ignored,
               [r \in Results |-> IF IsNotExist(r) THEN EnterFile(pc, pc.fi + 1, Env)
                                  ELSE [pc EXCEPT !.sub = "BindFile"]])
    /\ UNCHANGED Args

RemountLegacy_BindFile ==
    /\ At(RL, "BindFile")
    /\ Mount(CurCgroupFilePath, CurCgroupFilePath, "", BindFlags, <<>>, IfErr,
             [r \in Results |-> EnterFile(pc, pc.fi + 1, Env)])
    /\ UNCHANGED Args

RemountLegacy_RemountControllerRO ==
    /\ At(RL, "RemountControllerRO")
    /\ mountFsRO(CurCPath, [r \in Results |-> EnterCtrlBody(pc, pc.body + 1, Env)])
    /\ UNCHANGED Args

RemountLegacy_RemountSysRO ==
    /\ At(RL, "RemountSysRO")
    /\ mountFsRO(SysPath, [r \in Results |-> NextPhase])
    /\ UNCHANGED Args

----------------------------------------------------------------------------
(* RemountCgroupsRO(root, subcgroup, serviceNames) *)

RC == "RemountCgroupsRO"

UnifiedROFlags ==
    {"MS_BIND", "MS_REMOUNT", "MS_NOSUID", "MS_NOEXEC", "MS_NODEV", "MS_RDONLY"}

RemountCgroups_MkdirSubcgroup ==
    /\ At(RC, "MkdirSubcgroup")
    /\ MkdirAll(UnifiedSubcgroupPath, [r \in Results |-> NextPhase])
    /\ UNCHANGED Args

RemountCgroups_BindMachineDir ==
    /\ At(RC, "BindMachineDir")
    /\ Mount(MachineDir, MachineDir, "", BindFlags, <<>>, IfErr,
             [r \in Results |-> NextPhase])
    /\ UNCHANGED Args

RemountCgroups_RemountCgroupFsRO ==
    /\ At(RC, "RemountCgroupFsRO")
    /\ Mount(CgroupTmpfs, CgroupTmpfs, "", UnifiedROFlags, <<>>, IfErr,
             [r \in Results |-> NextPhase])
    /\ UNCHANGED Args

RemountCgroups_RemountSysRO ==
    /\ At(RC, "RemountSysRO")
    /\ Mount(SysPath, SysPath, "", UnifiedROFlags, <<>>, IfErr,
             [r \in Results |-> NextPhase])
    /\ UNCHANGED Args

----------------------------------------------------------------------------
(* The caller: container setup builds the hierarchy once, then locks it down *)

Names == << <<"app0.service">>, <<"app1.service">>, <<"app2.service">>, <<"app3.service">> >>

ServiceChoices == {SubSeq(Names, 1, n) : n \in 0..MaxServices}

LegacySubcgroups == { << <<"machine.slice">>, <<"pod.scope">> >> }

UnifiedSubcgroups ==
    { << <<"machine.slice">>, <<"pod.scope">> >>,
      << <<"machine.slice">>, <<"pod.scope">>, <<"system.slice">> >> }

MountContexts == { <<>>, <<"system_u:object_r:tmpfs_t:s0">> }

GroupChoices ==
    << << <<"memory">> >>, << <<"cpuset">> >>, << <<"cpuacct">>, <<"cpu">> >> >>

\* the maps /proc/cgroups can give: hierarchies 1..n, no controller in two groups
\* (which hierarchy id a group has plays no part: the groups are taken in the
\* order of GroupChoices, the order the map is walked in is chosen at each call)
EnabledChoices ==
    UNION { { [i \in 1..n |-> GroupChoices[pick[i]]] :
                pick \in {q \in [1..n -> DOMAIN GroupChoices] :
                            \A i, j \in 1..n : i < j => q[i] < q[j]} }
            : n \in 1..MaxHier }

AbsentCandidates == { <<"memory.limit_in_bytes">>, <<"cgroup.procs">> }

AbsentChoices == {a \in SUBSET AbsentCandidates : Cardinality(a) <= MaxAbsent}

SysfsMount == [fstype |-> "sysfs", data |-> <<>>, ro |-> FALSE, bind |-> FALSE]

NoMounts == [p \in {} |-> <<>>]

\* no query or helper routine is under way
NoCall == [fn |-> "none"]

HostSysMounted == [p \in {SysPath} |-> <<SysfsMount>>]

Lockdowns == Cardinality({i \in DOMAIN results : results[i].fn \in {RL, RC}})

LastResult == results[Len(results)]

CallCreateLegacyCgroups ==
    /\ pc = Idle
    /\ results = <<>>
    /\ \E ctx \in MountContexts, order \in Perms(DOMAIN enabledCgroups) :
         /\ mountContext' = ctx
         /\ controllers' = GetLegacyControllerDirs(enabledCgroups, order)
         /\ pending' = getLegacyControllerSymlinks(enabledCgroups, order)
         /\ pc' = EnterPhase(CL, 1, [ctrls |-> controllers',
                                     nlinks |-> Cardinality(DOMAIN pending'),
                                     svcs |-> <<>>])
    /\ ops' = <<>>
    /\ before' = mounts
    /\ UNCHANGED <<enabledCgroups, subcgroup, serviceNames, absent, mounts, dirs, links,
                   configured, results, faults, call, ret>>

CallRemountLegacyCgroupsRO ==
    /\ pc = Idle
    /\ results # <<>>
    /\ LastResult.err = "nil"
    /\ Lockdowns < MaxLockdowns
    /\ \/ /\ LastResult.fn = CL
          /\ subcgroup' \in LegacySubcgroups
          /\ serviceNames' \in ServiceChoices
       \/ /\ LastResult.fn = RL
          /\ UNCHANGED <<subcgroup, serviceNames>>
    /\ \E order \in Perms(DOMAIN enabledCgroups) :
         /\ controllers' = GetLegacyControllerDirs(enabledCgroups, order)
         /\ pc' = EnterPhase(RL, 1, [ctrls |-> controllers', nlinks |-> 0,
                                     svcs |-> serviceNames'])
    /\ pending' = <<>>
    /\ ops' = <<>>
    /\ before' = mounts
    /\ UNCHANGED <<enabledCgroups, mountContext, absent, mounts, dirs, links, configured,
                   results, faults, call, ret>>

CallCreateCgroups ==
    /\ pc = Idle
    /\ results = <<>>
    /\ pc' = EnterPhase(CC, 1, Env)
    /\ ops' = <<>>
    /\ before' = mounts
    /\ UNCHANGED <<Args, controllers, pending, mounts, dirs, links, configured, results,
                   faults>>

CallRemountCgroupsRO ==
    /\ pc = Idle
    /\ results # <<>>
    /\ LastResult.err = "nil"
    /\ Lockdowns < MaxLockdowns
    /\ \/ /\ LastResult.fn = CC
          /\ subcgroup' \in UnifiedSubcgroups
          /\ serviceNames' \in ServiceChoices
       \/ /\ LastResult.fn = RC
          /\ UNCHANGED <<subcgroup, serviceNames>>
    /\ pc' = EnterPhase(RC, 1, Env)
    /\ ops' = <<>>
    /\ before' = mounts
    /\ UNCHANGED <<enabledCgroups, mountContext, absent, controllers, pending, mounts,
                   dirs, links, configured, results, faults, call, ret>>

Init ==
    /\ enabledCgroups \in EnabledChoices
    /\ absent \in AbsentChoices
    /\ mounts \in {NoMounts, HostSysMounted}
    /\ mountContext = <<>>
    /\ subcgroup = <<>>
    /\ serviceNames = <<>>
    /\ controllers = <<>>
    /\ pending = <<>>
    /\ pc = Idle
    /\ ops = <<>>
    /\ before = mounts
    /\ dirs = {}
    /\ links = {}
    /\ configured = {}
    /\ results = <<>>
    /\ faults = 0
    /\ call = NoCall
    /\ ret = NoCall

Next ==
    \/ CallCreateLegacyCgroups
    \/ CreateLegacy_MkdirSys
    \/ CreateLegacy_MountSysfs
    \/ CreateLegacy_MkdirTmpfs
    \/ CreateLegacy_MountTmpfs
    \/ CreateLegacy_MkdirController
    \/ CreateLegacy_MountController
    \/ CreateLegacy_Symlink
    \/ CreateLegacy_MkdirSystemd
    \/ CreateLegacy_RemountTmpfsRO
    \/ CallCreateCgroups
    \/ CreateCgroups_MkdirSys
    \/ CreateCgroups_MountSysfs
    \/ CreateCgroups_MkdirCgroupFs
    \/ CreateCgroups_MountCgroup2
    \/ CreateCgroups_MkdirMachine
    \/ CallRemountLegacyCgroupsRO
    \/ fixCpusetKnobs_Mkdir
    \/ fixCpusetKnobs_ReadChild
    \/ fixCpusetKnobs_ReadParent
    \/ fixCpusetKnobs_Write1
    \/ fixCpusetKnobs_Write2
    \/ RemountLegacy_MkdirApp
    \/ RemountLegacy_StatFile
    \/ RemountLegacy_BindFile
    \/ RemountLegacy_RemountControllerRO
    \/ RemountLegacy_RemountSysRO
    \/ CallRemountCgroupsRO
    \/ RemountCgroups_MkdirSubcgroup
    \/ RemountCgroups_BindMachineDir
    \/ RemountCgroups_RemountCgroupFsRO
    \/ RemountCgroups_RemountSysRO

Spec == Init /\ [][Next]_vars

----------------------------------------------------------------------------
(* Text: decimal numbers and fmt.Sscanf                                    *)
(*                                                                         *)
(* In the files of /proc a line is a string whose symbols are words,       *)
(* digits and the separators " ", ":" and ",".  A name can be made of      *)
(* several symbols ("cpu" "acct"), so that being a prefix of a name and    *)
(* being the name are different things.                                    *)

Digits == <<"0", "1", "2", "3", "4", "5", "6", "7", "8", "9">>

\* strconv.Itoa
RECURSIVE Itoa(_)
Itoa(n) ==
    IF n < 0 THEN <<"-">> \o Itoa(-n)
    ELSE IF n < 10 THEN <<Digits[n + 1]>>
    ELSE Itoa(n \div 10) \o <<Digits[(n % 10) + 1]>>

\* the digits a %d verb consumes at the head of s
RECURSIVE LeadingDigits(_)
LeadingDigits(s) ==
    IF s = <<>> \/ Head(s) \notin SeqRange(Digits) THEN <<>>
    ELSE <<Head(s)>> \o LeadingDigits(Tail(s))

\* the number a sequence of digits denotes
RECURSIVE DecimalValue(_)
DecimalValue(ds) ==
    IF ds = <<>> THEN 0
    ELSE DecimalValue(SubSeq(ds, 1, Len(ds) - 1)) * 10
         + (CHOOSE i \in DOMAIN Digits : Digits[i] = ds[Len(ds)]) - 1

\* fmt.Sscanf(text, "%s %d %d %d", &controller, &hierarchy, &num, &enabled):
\* the verbs are served from left to right, each from the next space-separated
\* token, and the scan stops at the first one that finds no input; what was
\* not scanned keeps its zero value.  A %d takes the leading digits of its
\* token; if the token goes on after them, the next verb finds no number.
\* n is the number of verbs served.
Sscanf(text) ==
    LET toks == SelectSeq(Split(text, " "), LAMBDA t : t # <<>>)
        num(i) == LeadingDigits(toks[i])
        served(i) == Len(toks) >= i /\ num(i) # <<>>
        whole(i) == num(i) = toks[i]
        ok1 == Len(toks) >= 1
        ok2 == ok1 /\ served(2)
        ok3 == ok2 /\ whole(2) /\ served(3)
        ok4 == ok3 /\ whole(3) /\ served(4)
    IN  [controller |-> IF ok1 THEN toks[1] ELSE <<>>,
         hierarchy |-> IF ok2 THEN DecimalValue(num(2)) ELSE 0,
         num |-> IF ok3 THEN DecimalValue(num(3)) ELSE 0,
         enabled |-> IF ok4 THEN DecimalValue(num(4)) ELSE 0,
         n |-> IF ok4 THEN 4 ELSE IF ok3 THEN 3 ELSE IF ok2 THEN 2 ELSE IF ok1 THEN 1 ELSE 0]

----------------------------------------------------------------------------
(* /proc/cgroups: the inventory of controllers                             *)
(*                                                                         *)
(* A file as a routine meets it is a record: whether it can be opened      *)
(* (open), its lines, and whether reading fails after them (readErr, the   *)
(* scanner's Err).                                                         *)

\* bufio.Scanner: the lines after the first Scan
AfterHeader(lines) == IF lines = <<>> THEN <<>> ELSE Tail(lines)

AddController_Prepend(cgroups, hierarchy, controller) ==
    IF hierarchy \notin DOMAIN cgroups THEN cgroups @@ (hierarchy :> <<controller>>)
    ELSE [cgroups EXCEPT ![hierarchy] = <<controller>> \o @]

\* the body of `if enabled == 1`
AddController(cgroups, hierarchy, controller) ==
    IF hierarchy \notin DOMAIN cgroups THEN cgroups @@ (hierarchy :> <<controller>>)
    ELSE [cgroups EXCEPT ![hierarchy] = Append(@, controller)]

\* the loop of parseLegacyCgroups: the result of Sscanf is not looked at
RECURSIVE ParseRows(_, _)
ParseRows(lines, cgroups) ==
    IF lines = <<>> THEN cgroups
    ELSE LET row == Sscanf(Head(lines))
         IN  ParseRows(Tail(lines),
                       IF row.enabled = 1
                       THEN AddController(cgroups, row.hierarchy, row.controller)
                       ELSE cgroups)

\* (a nil map is the map without keys)
parseLegacyCgroups(f) ==
    IF f.readErr THEN [cgroups |-> <<>>, err |-> "scan"]
    ELSE [cgroups |-> ParseRows(AfterHeader(f.lines), <<>>), err |-> "nil"]

GetEnabledLegacyCgroups(f) ==
    IF ~f.open THEN [cgroups |-> <<>>, err |-> "open"]
    ELSE LET parsed == parseLegacyCgroups(f)
         IN  IF parsed.err # "nil"
             THEN [cgroups |-> <<>>, err |-> "error parsing /proc/cgroups"]
             ELSE parsed

\* strings.HasPrefix(sc.Text(), isolator) on every line after the first
IsIsolatorSupported(f, isolator) ==
    IF ~f.open THEN [supported |-> FALSE, err |-> "open"]
    ELSE IF \E i \in DOMAIN AfterHeader(f.lines) :
                IsPrefix(isolator, AfterHeader(f.lines)[i])
         THEN [supported |-> TRUE, err |-> "nil"]
    ELSE IF f.readErr THEN [supported |-> FALSE, err |-> "scan"]
    ELSE [supported |-> FALSE, err |-> "nil"]

----------------------------------------------------------------------------
(* Resource limits: resource.Quantity, addCpuLimit, addMemoryLimit,        *)
(* MaybeAddIsolator                                                        *)
(*                                                                         *)
(* A quantity is a record: nil or not, and its amount in thousandths       *)
(* (milli: millicores, or thousandths of a byte).  int64, and int, are     *)
(* scaled down to IntBits bits; MaxMilliValue is the largest int64         *)
(* divided by 1000, as in the resource package.  A unit option is a        *)
(* record of section, name and value.                                      *)

IntBits == 16

MaxInt64 == 2^(IntBits - 1) - 1

MaxMilliValue == MaxInt64 \div 1000

\* the low IntBits bits of x, read as a signed number
Int64(x) == ((x + 2^(IntBits - 1)) % 2^IntBits) - 2^(IntBits - 1)

\* Go's division truncates toward zero
Quo(a, b) == IF a >= 0 THEN a \div b ELSE -((-a) \div b)

\* Quantity.Value: the amount in whole units, rounded up
Value(q) == Int64((q.milli + 999) \div 1000)

\* Quantity.MilliValue: the amount in thousandths, as an int64
MilliValue(q) == Int64(q.milli)

addCpuLimit_NoGuard(opts, limit) ==
    [opts |-> Append(opts, [section |-> "Service", name |-> "CPUQuota",
                            value |-> Itoa(Int64(Quo(MilliValue(limit), 10))) \o <<"%">>]),
     err |-> "nil"]

addCpuLimit(opts, limit) ==
    IF Value(limit) > MaxMilliValue
    THEN [opts |-> <<>>, err |-> "cpu limit exceeds the maximum millivalue"]
    ELSE [opts |-> Append(opts, [section |-> "Service", name |-> "CPUQuota",
                                 value |-> Itoa(Int64(Quo(MilliValue(limit), 10)))
                                           \o <<"%">>]),
          err |-> "nil"]

\* the amount in thousandths taken for the amount in units
addMemoryLimit_Milli(opts, limit) ==
    [opts |-> Append(opts, [section |-> "Service", name |-> "MemoryLimit",
                            value |-> Itoa(Int64(MilliValue(limit)))]),
     err |-> "nil"]

addMemoryLimit(opts, limit) ==
    [opts |-> Append(opts, [section |-> "Service", name |-> "MemoryLimit",
                            value |-> Itoa(Int64(Value(limit)))]),
     err |-> "nil"]

\* isolatorFuncs[isolator](opts, limit); a kind without an entry is a call of
\* a nil function
isolatorFuncs(isolator, opts, limit) ==
    IF isolator = <<"cpu">> THEN addCpuLimit(opts, limit)
    ELSE IF isolator = <<"memory">> THEN addMemoryLimit(opts, limit)
    ELSE [opts |-> <<>>, err |-> "panic"]

MaybeAddIsolator_WarnIsError(opts, isolator, limit, f) ==
    LET s == IsIsolatorSupported(f, isolator)
    IN  IF limit.nil THEN [opts |-> opts, err |-> "nil", did |-> <<>>]
        ELSE IF s.supported
        THEN isolatorFuncs(isolator, opts, limit)
             @@ [did |-> <<"IsIsolatorSupported", "isolatorFuncs">>]
        ELSE [opts |-> <<>>, err |-> "unsupported",
              did |-> <<"IsIsolatorSupported", "warning">>]

MaybeAddIsolator_AlwaysAsks(opts, isolator, limit, f) ==
    LET s == IsIsolatorSupported(f, isolator)
    IN  IF s.err # "nil" THEN [opts |-> <<>>, err |-> s.err, did |-> <<"IsIsolatorSupported">>]
        ELSE IF limit.nil THEN [opts |-> opts, err |-> "nil", did |-> <<"IsIsolatorSupported">>]
        ELSE IF s.supported
        THEN isolatorFuncs(isolator, opts, limit)
             @@ [did |-> <<"IsIsolatorSupported", "isolatorFuncs">>]
        ELSE [opts |-> opts, err |-> "nil", did |-> <<"IsIsolatorSupported", "warning">>]

\* the translator is invoked and its options are dropped
MaybeAddIsolator_DropsOption(opts, isolator, limit, f) ==
    LET s == IsIsolatorSupported(f, isolator)
    IN  IF limit.nil THEN [opts |-> opts, err |-> "nil", did |-> <<>>]
        ELSE IF s.err # "nil"
        THEN [opts |-> <<>>, err |-> s.err, did |-> <<"IsIsolatorSupported">>]
        ELSE IF s.supported
        THEN LET r == isolatorFuncs(isolator, opts, limit)
             IN  [opts |-> IF r.err # "nil" THEN <<>> ELSE opts, err |-> r.err,
                  did |-> <<"IsIsolatorSupported", "isolatorFuncs">>]
        ELSE [opts |-> opts, err |-> "nil", did |-> <<"IsIsolatorSupported", "warning">>]

\* did: what the call did besides computing, in order (the inventory was
\* consulted, a translator was invoked, a warning was printed)
MaybeAddIsolator(opts, isolator, limit, f) ==
    IF limit.nil THEN [opts |-> opts, err |-> "nil", did |-> <<>>]
    ELSE LET s == IsIsolatorSupported(f, isolator)
         IN  IF s.err # "nil"
             THEN [opts |-> <<>>, err |-> s.err, did |-> <<"IsIsolatorSupported">>]
             ELSE IF s.supported
             THEN LET r == isolatorFuncs(isolator, opts, limit)
                  IN  [opts |-> IF r.err # "nil" THEN <<>> ELSE r.opts, err |-> r.err,
                       did |-> <<"IsIsolatorSupported", "isolatorFuncs">>]
             ELSE [opts |-> opts, err |-> "nil",
                   did |-> <<"IsIsolatorSupported", "warning">>]

----------------------------------------------------------------------------
(* /proc/<pid>/cgroup: the cgroup of a process in a hierarchy *)

\* strings.SplitN(s, sep, n) for n > 0: at most n parts, the last one unsplit
RECURSIVE SplitN(_, _, _)
SplitN(s, sep, n) ==
    IF n = 1 \/ sep \notin SeqRange(s) THEN <<s>>
    ELSE LET i == CHOOSE k \in DOMAIN s : s[k] = sep /\ \A j \in 1..(k - 1) : s[j] # sep
         IN  <<SubSeq(s, 1, i - 1)>> \o SplitN(SubSeq(s, i + 1, Len(s)), sep, n - 1)

ListsController_Prefix(list, controller) ==
    \E i \in DOMAIN Split(list, ",") : IsPrefix(controller, Split(list, ",")[i])

\* the inner loop: c == controller for a c of strings.Split(parts[1], ",")
ListsController(list, controller) ==
    \E i \in DOMAIN Split(list, ",") : Split(list, ",")[i] = controller

\* the scan of parseLegacyCgroupController; the scanner's error is not looked at
RECURSIVE FindController(_, _)
FindController(lines, controller) ==
    IF lines = <<>> THEN [parts |-> <<>>, err |-> "controller not found"]
    ELSE LET parts == SplitN(Head(lines), ":", 3)
         IN  IF Len(parts) < 3
             THEN [parts |-> <<>>, err |-> "error parsing /proc/self/cgroup"]
             ELSE IF ListsController(parts[2], controller)
             THEN [parts |-> parts, err |-> "nil"]
             ELSE FindController(Tail(lines), controller)

parseLegacyCgroupController(f, controller) ==
    IF ~f.open THEN [parts |-> <<>>, err |-> "error opening /proc/self/cgroup"]
    ELSE FindController(f.lines, controller)

\* GetOwnLegacyCgroupPath is the same on /proc/self/cgroup
GetLegacyCgroupPathByPid(f, controller) ==
    LET r == parseLegacyCgroupController(f, controller)
    IN  IF r.err # "nil" THEN [path |-> <<>>, err |-> r.err]
        ELSE [path |-> r.parts[3], err |-> "nil"]

\* a variant that goes on to the first line of three fields
parseProcCgroupInfo_SkipsShort(f) ==
    IF ~f.open THEN [path |-> <<>>, err |-> "error opening /proc/self/cgroup"]
    ELSE LET full == SelectSeq(f.lines, LAMBDA l : Len(SplitN(l, ":", 3)) = 3)
         IN  IF full = <<>> THEN [path |-> <<>>, err |-> "error parsing /proc/self/cgroup"]
             ELSE [path |-> SplitN(full[1], ":", 3)[3], err |-> "nil"]

\* s.Scan() once, its answer not looked at: s.Text() is the first line, or
\* the empty string when there is none
parseProcCgroupInfo(f) ==
    IF ~f.open THEN [path |-> <<>>, err |-> "error opening /proc/self/cgroup"]
    ELSE LET text == IF f.lines = <<>> THEN <<>> ELSE Head(f.lines)
             parts == SplitN(text, ":", 3)
         IN  IF Len(parts) < 3
             THEN [path |-> <<>>, err |-> "error parsing /proc/self/cgroup"]
             ELSE [path |-> parts[3], err |-> "nil"]

----------------------------------------------------------------------------
(* JoinLegacySubcgroup and JoinSubcgroup: the calling process enters a     *)
(* cgroup of the host's hierarchy.  The host's file system is not the tree *)
(* built under Root: what its MkdirAll and WriteFile answer is an input.   *)

HostCgroup == << <<"sys">>, <<"fs">>, <<"cgroup">> >>

HostOutcomes == {"ok", "EROFS", "EPERM"}

\* os.MkdirAll(subcgroupPath, 0600) and the return that follows it
JoinMkdirAll(subcgroupPath, res) ==
    [ops |-> <<[op |-> "mkdir", path |-> subcgroupPath, data |-> <<>>, res |-> res]>>,
     pc |-> IF res = "ok" THEN "WriteFile" ELSE "done",
     err |-> IF res = "ok" THEN "none" ELSE "error creating subcgroup"]

JoinWriteFile_Blind(subcgroupPath, pid, res) ==
    [ops |-> Append(ret.ops, [op |-> "write",
                              path |-> subcgroupPath \o << <<"cgroup.procs">> >>,
                              data |-> Itoa(pid), res |-> res]),
     pc |-> "done",
     err |-> "nil"]

\* ioutil.WriteFile(subcgroupPath/cgroup.procs, strconv.Itoa(os.Getpid()), 0600)
\* and the return that follows it
JoinWriteFile(subcgroupPath, pid, res) ==
    [ops |-> Append(ret.ops, [op |-> "write",
                              path |-> subcgroupPath \o << <<"cgroup.procs">> >>,
                              data |-> Itoa(pid), res |-> res]),
     pc |-> "done",
     err |-> IF res = "ok" THEN "nil" ELSE "error adding ourselves to the subcgroup"]

----------------------------------------------------------------------------
(* The command line of run and prepare: images, their flags and their      *)
(* argument lists.  An app is [image, imType, exec, args]; al is the       *)
(* sequence al.apps, so that al.Count() is Len(al), al.Last() is           *)
(* al[Len(al)] (nil when al is empty) and al.Create(img) appends           *)
(* App{Image: img}, whose other fields are zero.                           *)

AppImageGuess == "guess"

ImageTypes == {"hash", "url", "path", "name"}

\* what each flag's third message says it cannot be used together with
OtherTypeFlags ==
    [t \in ImageTypes |->
        CASE t = "hash" -> "--is-url, --is-path or --is-name"
          [] t = "url" -> "--is-hash, --is-path or --is-name"
          [] t = "path" -> "--is-hash, --is-url or --is-name"
          [] t = "name" -> "--is-hash, --is-url or --is-path"]

\* appHashType.Set, appURLType.Set, appPathType.Set, appNameType.Set: the
\* four differ in the type t they stand for and in their messages only
appImageTypeSet(al, t) ==
    IF al = <<>> THEN [apps |-> al, err |-> "--is-" \o t \o " must follow an image"]
    ELSE IF al[Len(al)].imType # t
    THEN [apps |-> al, err |-> "redundant --is-" \o t \o " flag"]
    ELSE IF al[Len(al)].imType # AppImageGuess
    THEN [apps |-> al,
          err |-> "--is-" \o t \o " cannot be used together with " \o OtherTypeFlags[t]]
    ELSE [apps |-> [al EXCEPT ![Len(al)].imType = t], err |-> "nil"]

\* appExec.Set
appExecSet(al, s) ==
    IF al = <<>> THEN [apps |-> al, err |-> "--exec must follow an image"]
    ELSE IF al[Len(al)].exec # ""
    THEN [apps |-> al, err |-> "--exec specified multiple times for the same image"]
    ELSE [apps |-> [al EXCEPT ![Len(al)].exec = s], err |-> "nil"]

\* flags.Parse(arguments) of a flag set that is not interspersed and has the
\* flags --exec and --is-hash, --is-url, --is-path, --is-name bound to al:
\* every leading flag is handed to its Set (--exec with the argument after
\* it, whatever that is), whose error ends the parse; "--" is consumed and
\* ends the parse; "---" is no flag; an argument that does not begin with a
\* dash ends the parse and is left over.  narg is flags.NArg(), the number
\* of arguments left over; took: what each argument consumed was taken for.
RECURSIVE FlagsParse(_, _)
FlagsParse(al, arguments) ==
    IF arguments = <<>> THEN [apps |-> al, err |-> "nil", narg |-> 0, took |-> <<>>]
    ELSE LET s == Head(arguments)
             failed(r) == [apps |-> r.apps, err |-> r.err, narg |-> 0, took |-> <<>>]
             after(r, n) ==
                 LET rest == FlagsParse(r.apps, SubSeq(arguments, n + 1, Len(arguments)))
                 IN  [rest EXCEPT !.took = (IF n = 2 THEN <<"flag", "value">>
                                            ELSE <<"flag">>) \o @]
         IN  CASE s = "--" ->
                     [apps |-> al, err |-> "nil", narg |-> Len(arguments) - 1,
                      took |-> <<"dashes">>]
               [] s = "---" -> failed([apps |-> al, err |-> "bad flag syntax: ---"])
               [] s = "--exec" ->
                     IF Len(arguments) < 2
                     THEN failed([apps |-> al, err |-> "flag needs an argument: --exec"])
                     ELSE IF appExecSet(al, arguments[2]).err # "nil"
                     THEN failed(appExecSet(al, arguments[2]))
                     ELSE after(appExecSet(al, arguments[2]), 2)
               [] s \in {"--is-" \o t : t \in ImageTypes} ->
                     LET t == CHOOSE u \in ImageTypes : s = "--is-" \o u
                     IN  IF appImageTypeSet(al, t).err # "nil"
                         THEN failed(appImageTypeSet(al, t))
                         ELSE after(appImageTypeSet(al, t), 1)
               [] OTHER ->
                     [apps |-> al, err |-> "nil", narg |-> Len(arguments), took |-> <<>>]

\* a variant that takes every "--" it is allowed to take
BeginAppArgs_Always(al, nAppsLastAppArgs, allowAppArgs) ==
    IF ~allowAppArgs THEN "app arguments unsupported" ELSE "nil"

\* case "--" outside an argument list: the error returned, if any
BeginAppArgs(al, nAppsLastAppArgs, allowAppArgs) ==
    IF ~allowAppArgs THEN "app arguments unsupported"
    ELSE IF nAppsLastAppArgs = Len(al)
    THEN IF Len(al) = 0 THEN "an image is required before any app arguments"
         ELSE "only one set of app arguments allowed per image"
    ELSE "nil"

\* the loop of parseApps from args[i] on (i counts from 1), and the return
\* after it; al.Validate() looks at mounts and volumes only, which these
\* command lines do not have.  trace: what each argument passed was taken
\* for, in order.
RECURSIVE parseAppsFrom(_, _, _, _, _, _, _)
parseAppsFrom(al, args, i, inAppArgs, nAppsLastAppArgs, allowAppArgs, trace) ==
    IF i > Len(args) THEN [apps |-> al, err |-> "nil", trace |-> trace]
    ELSE IF inAppArgs
    THEN IF args[i] = "---"
         THEN parseAppsFrom(al, args, i + 1, FALSE, nAppsLastAppArgs, allowAppArgs,
                            Append(trace, "end"))
         ELSE parseAppsFrom([al EXCEPT ![Len(al)].args = Append(@, args[i])], args, i + 1,
                            TRUE, nAppsLastAppArgs, allowAppArgs, Append(trace, "appArg"))
    ELSE CASE args[i] = "--" ->
                IF BeginAppArgs(al, nAppsLastAppArgs, allowAppArgs) # "nil"
                THEN [apps |-> al,
                      err |-> BeginAppArgs(al, nAppsLastAppArgs, allowAppArgs),
                      trace |-> trace]
                ELSE parseAppsFrom(al, args, i + 1, TRUE, Len(al), allowAppArgs,
                                   Append(trace, "begin"))
           [] args[i] = "---" ->
                parseAppsFrom(al, args, i + 1, FALSE, nAppsLastAppArgs, allowAppArgs,
                              Append(trace, "ignored"))
           [] OTHER ->
                LET p == FlagsParse(al, SubSeq(args, i, Len(args)))
                    nInterFlags == (Len(args) - i + 1) - p.narg
                    reclaimed == IF args[i + nInterFlags - 1] = "--"
                                 THEN nInterFlags - 1 ELSE nInterFlags
                IN  IF p.err # "nil"
                    THEN [apps |-> p.apps, err |-> p.err, trace |-> trace]
                    ELSE IF nInterFlags > 0
                    THEN parseAppsFrom(p.apps, args, i + reclaimed, FALSE,
                                       nAppsLastAppArgs, allowAppArgs,
                                       trace \o SubSeq(p.took, 1, reclaimed))
                    ELSE parseAppsFrom(
                            Append(al, [image |-> args[i], imType |-> AppImageGuess,
                                        exec |-> "", args |-> <<>>]),
                            args, i + 1, FALSE, nAppsLastAppArgs, allowAppArgs,
                            Append(trace, "image"))

parseApps(al, args, allowAppArgs) ==
    parseAppsFrom(al, args, 1, FALSE, Len(al), allowAppArgs, <<>>)

----------------------------------------------------------------------------
(* The callers of the queries and helpers: one call, of any routine, with  *)
(* any input                                                               *)

MaxRows == 3

\* controllers mounted together in one hierarchy
MaxMembers == 3

\* arguments on a command line
MaxArgs == 5

CtrlNames == { <<"memory">>, <<"cpu">>, <<"cpu", "acct">> }

Row(name, hierarchy, num, enabled) ==
    name \o <<" ">> \o Itoa(hierarchy) \o <<" ">> \o Itoa(num) \o <<" ">> \o Itoa(enabled)

\* rows as the kernel prints them
WellFormedRows == {Row(c, h, 1, e) : c \in CtrlNames, h \in {2, 11}, e \in {0, 1}}

\* the hierarchy under Root plays no part in these routines
Hierarchy == <<enabledCgroups, mountContext, subcgroup, serviceNames, absent, controllers,
               pending, pc, ops, before, mounts, dirs, links, configured, results, faults>>

Call_GetEnabledLegacyCgroups ==
    /\ call.fn = "GetEnabledLegacyCgroups"
    /\ ret = NoCall
    /\ ret' = GetEnabledLegacyCgroups(call.file)
    /\ UNCHANGED <<Hierarchy, call>>

Call_IsIsolatorSupported ==
    /\ call.fn = "IsIsolatorSupported"
    /\ ret = NoCall
    /\ ret' = IsIsolatorSupported(call.file, call.isolator)
    /\ UNCHANGED <<Hierarchy, call>>

Call_addCpuLimit ==
    /\ call.fn = "addCpuLimit"
    /\ ret = NoCall
    /\ ret' = addCpuLimit(call.opts, call.limit)
    /\ UNCHANGED <<Hierarchy, call>>

Call_addMemoryLimit ==
    /\ call.fn = "addMemoryLimit"
    /\ ret = NoCall
    /\ ret' = addMemoryLimit(call.opts, call.limit)
    /\ UNCHANGED <<Hierarchy, call>>

Call_MaybeAddIsolator ==
    /\ call.fn = "MaybeAddIsolator"
    /\ ret = NoCall
    /\ ret' = MaybeAddIsolator(call.opts, call.isolator, call.limit, call.file)
    /\ UNCHANGED <<Hierarchy, call>>

Call_GetLegacyCgroupPathByPid ==
    /\ call.fn = "GetLegacyCgroupPathByPid"
    /\ ret = NoCall
    /\ ret' = GetLegacyCgroupPathByPid(call.file, call.controller)
    /\ UNCHANGED <<Hierarchy, call>>

\* GetCgroupPathByPid(pid) on /proc/<pid>/cgroup; GetOwnCgroupPath is the same
\* on /proc/self/cgroup
Call_GetCgroupPathByPid ==
    /\ call.fn = "GetCgroupPathByPid"
    /\ ret = NoCall
    /\ ret' = parseProcCgroupInfo(call.file)
    /\ UNCHANGED <<Hierarchy, call>>

\* the map is walked in an order chosen at the call
Call_getLegacyControllerSymlinks ==
    /\ call.fn = "getLegacyControllerSymlinks"
    /\ ret = NoCall
    /\ \E order \in Perms(DOMAIN call.cgroups) :
         ret' = [symlinks |-> getLegacyControllerSymlinks(call.cgroups, order)]
    /\ UNCHANGED <<Hierarchy, call>>

Call_getLegacyControllerRWFiles ==
    /\ call.fn = "getLegacyControllerRWFiles"
    /\ ret = NoCall
    /\ ret' = [files |-> getLegacyControllerRWFiles(call.controller)]
    /\ UNCHANGED <<Hierarchy, call>>

Call_parseApps ==
    /\ call.fn = "parseApps"
    /\ ret = NoCall
    /\ ret' = parseApps(call.al, call.args, call.allowAppArgs)
    /\ UNCHANGED <<Hierarchy, call>>

\* flag.Value.Set of the flag --is-<t>, as flags.Parse calls it
Call_Set ==
    /\ call.fn = "Set"
    /\ ret = NoCall
    /\ ret' = appImageTypeSet(call.al, call.t)
    /\ UNCHANGED <<Hierarchy, call>>

JoinLegacySubcgroup_MkdirAll ==
    /\ call.fn = "JoinLegacySubcgroup"
    /\ ret = NoCall
    /\ \E res \in HostOutcomes :
         ret' = JoinMkdirAll(HostCgroup \o <<call.controller>> \o call.subcgroup, res)
    /\ UNCHANGED <<Hierarchy, call>>

JoinLegacySubcgroup_WriteFile ==
    /\ call.fn = "JoinLegacySubcgroup"
    /\ ret # NoCall
    /\ ret.pc = "WriteFile"
    /\ \E res \in HostOutcomes :
         ret' = JoinWriteFile(HostCgroup \o <<call.controller>> \o call.subcgroup,
                              call.pid, res)
    /\ UNCHANGED <<Hierarchy, call>>

JoinSubcgroup_MkdirAll ==
    /\ call.fn = "JoinSubcgroup"
    /\ ret = NoCall
    /\ \E res \in HostOutcomes :
         ret' = JoinMkdirAll(HostCgroup \o call.subcgroup, res)
    /\ UNCHANGED <<Hierarchy, call>>

JoinSubcgroup_WriteFile ==
    /\ call.fn = "JoinSubcgroup"
    /\ ret # NoCall
    /\ ret.pc = "WriteFile"
    /\ \E res \in HostOutcomes :
         ret' = JoinWriteFile(HostCgroup \o call.subcgroup, call.pid, res)
    /\ UNCHANGED <<Hierarchy, call>>

InitRoutines ==
    LET header == <<"#subsys_name", " ", "hierarchy", " ", "num_cgroups", " ", "enabled">>
        \* lines the kernel does not print: empty, a name alone, a hierarchy that
        \* is no number, an enabled field that goes on after its digit
        malformed == { <<>>,
                       <<"memory">>,
                       <<"memory", " ", "x", " ", "1", " ", "1">>,
                       <<"cpu", " ", "2", " ", "1", " ", "1", "x">> }
        \* up to MaxRows lines, no name on two of them
        rowSeqs(lines) ==
            UNION { {rows \in [1..n -> lines] :
                        \A i, j \in 1..n :
                           i < j => Sscanf(rows[i]).controller # Sscanf(rows[j]).controller}
                    : n \in 0..MaxRows }
        unreadable == [open |-> FALSE, lines |-> <<>>, readErr |-> FALSE]
        wellFormedFiles ==
            {[open |-> TRUE, lines |-> <<header>> \o rows, readErr |-> FALSE] :
                rows \in rowSeqs(WellFormedRows)}
        procCgroupsFiles ==
            {[open |-> TRUE, lines |-> <<header>> \o rows, readErr |-> e] :
                rows \in rowSeqs(WellFormedRows \cup malformed), e \in BOOLEAN}
            \cup {[open |-> TRUE, lines |-> <<>>, readErr |-> FALSE], unreadable}
        isolators == { <<"cpu">>, <<"memory">>, <<"blkio">> }
        optChoices == { <<>>,
                        <<[section |-> "Service", name |-> "Slice",
                           value |-> <<"machine.slice">>]>> }
        \* amounts up to two units above MaxMilliValue units: the small ones,
        \* those next to the largest int64, and a few in every unit
        millis == {m \in 0..((MaxMilliValue + 2) * 1000) :
                      \/ m <= MaxMilliValue + 10
                      \/ m \in (MaxInt64 - 1)..(MaxInt64 + 1)
                      \/ m % 1000 \in {0, 1, 9, 10, 500, 999}}
        \* byte counts up to the largest int64, and amounts that are no whole
        \* number of bytes
        byteMillis == {1000 * b : b \in {0, 1, 9, 10, 99, 100, 1342, MaxInt64 - 1, MaxInt64}}
                      \cup {1, 1500, 99001}
        limits == {[nil |-> TRUE, milli |-> 0]}
                  \cup {[nil |-> FALSE, milli |-> m] :
                           m \in {500, 1500, (MaxMilliValue + 1) * 1000}}
        pidCgroupLines == { <<"4", ":", "memory", ":", "/a">>,
                            <<"3", ":", "cpu", ",", "cpu", "acct", ":", "/b">>,
                            <<"2", ":", "cpu", "acct", ":", "/c", ":", "d">>,
                            <<"0", ":", ":", "/e">>,
                            <<"6", ":", "memory">>,
                            <<"garbage">> }
        pidCgroupFiles ==
            {[open |-> TRUE, lines |-> lines, readErr |-> FALSE] :
                lines \in UNION {[1..n -> pidCgroupLines] : n \in 0..MaxRows}}
            \cup {unreadable}
        pids == {7, 1234}
        \* the directory names of hierarchies of up to MaxMembers controllers
        memberNames == { <<"memory">>, <<"cpu">>, <<"devices">>, <<"cpuacct">>,
                         <<"cpuset">> }
        \* command lines of up to MaxArgs arguments: an image, the two
        \* delimiters, a flag with a value and a flag without
        words == {"img", "--", "---", "--exec", "--is-hash"}
        cmdLines == UNION {[1..n -> words] : n \in 0..MaxArgs}
        \* the apps there are when the command line is parsed, the last one of
        \* any image type
        appLists ==
            { <<>> } \cup
            {pre \o <<[image |-> "img0", imType |-> ty, exec |-> "", args |-> <<>>]>> :
                pre \in { <<>>, <<[image |-> "img9", imType |-> "url", exec |-> "",
                                   args |-> <<"x">>]>> },
                ty \in ImageTypes \cup {AppImageGuess}}
        controllerDirs ==
            UNION { {Join(g, ",") :
                        g \in {q \in [1..n -> memberNames] :
                                  \A i, j \in 1..n : i < j => q[i] # q[j]}}
                    : n \in 1..MaxMembers }
    IN
    /\ enabledCgroups = <<>>
    /\ absent = {}
    /\ mounts = NoMounts
    /\ mountContext = <<>>
    /\ subcgroup = <<>>
    /\ serviceNames = <<>>
    /\ controllers = <<>>
    /\ pending = <<>>
    /\ pc = Idle
    /\ ops = <<>>
    /\ before = mounts
    /\ dirs = {}
    /\ links = {}
    /\ configured = {}
    /\ results = <<>>
    /\ faults = 0
    /\ ret = NoCall
    /\ \/ \E f \in procCgroupsFiles :
            call = [fn |-> "GetEnabledLegacyCgroups", file |-> f]
       \/ \E f \in procCgroupsFiles, i \in isolators :
            call = [fn |-> "IsIsolatorSupported", file |-> f, isolator |-> i]
       \/ \E o \in optChoices, m \in millis :
            call = [fn |-> "addCpuLimit", opts |-> o, limit |-> [nil |-> FALSE, milli |-> m]]
       \/ \E o \in optChoices, m \in byteMillis :
            call = [fn |-> "addMemoryLimit", opts |-> o,
                    limit |-> [nil |-> FALSE, milli |-> m]]
       \/ \E o \in optChoices, i \in isolators, l \in limits,
             f \in wellFormedFiles \cup {unreadable} :
            call = [fn |-> "MaybeAddIsolator", opts |-> o, isolator |-> i, limit |-> l,
                    file |-> f]
       \/ \E f \in pidCgroupFiles, c \in CtrlNames \cup { <<"blkio">> } :
            call = [fn |-> "GetLegacyCgroupPathByPid", file |-> f, controller |-> c]
       \/ \E f \in pidCgroupFiles :
            call = [fn |-> "GetCgroupPathByPid", file |-> f]
       \/ \E g \in EnabledChoices :
            call = [fn |-> "getLegacyControllerSymlinks", cgroups |-> g]
       \/ \E a \in cmdLines, b \in BOOLEAN, l \in {al \in appLists : Len(al) <= 1
                                                       /\ \A k \in DOMAIN al :
                                                             al[k].imType = AppImageGuess} :
            call = [fn |-> "parseApps", al |-> l, args |-> a, allowAppArgs |-> b]
       \/ \E l \in appLists, ty \in ImageTypes :
            call = [fn |-> "Set", al |-> l, t |-> ty]
       \/ \E c \in controllerDirs :
            call = [fn |-> "getLegacyControllerRWFiles", controller |-> c]
       \/ \E c \in {Join(g, ",") : g \in SeqRange(GroupChoices)}, s \in LegacySubcgroups,
             p \in pids :
            call = [fn |-> "JoinLegacySubcgroup", controller |-> c, subcgroup |-> s,
                    pid |-> p]
       \/ \E s \in UnifiedSubcgroups, p \in pids :
            call = [fn |-> "JoinSubcgroup", subcgroup |-> s, pid |-> p]

NextRoutines ==
    \/ Call_GetEnabledLegacyCgroups
    \/ Call_IsIsolatorSupported
    \/ Call_addCpuLimit
    \/ Call_addMemoryLimit
    \/ Call_MaybeAddIsolator
    \/ Call_GetLegacyCgroupPathByPid
    \/ Call_GetCgroupPathByPid
    \/ Call_getLegacyControllerSymlinks
    \/ Call_getLegacyControllerRWFiles
    \/ Call_parseApps
    \/ Call_Set
    \/ JoinLegacySubcgroup_MkdirAll
    \/ JoinLegacySubcgroup_WriteFile
    \/ JoinSubcgroup_MkdirAll
    \/ JoinSubcgroup_WriteFile

SpecRoutines == InitRoutines /\ [][NextRoutines]_vars

----------------------------------------------------------------------------
(* Vocabulary of the properties *)

\* Every step of a routine appends one operation to ops, and ops is emptied
\* only when a routine is called: each prefix of a call's operations is the
\* ops of a reachable state.  A property of an operation and those before it
\* is therefore stated for the newest operation, Last, and holds for all.
Last == ops[Len(ops)]

Earlier == 1..(Len(ops) - 1)

ControllerDirs == {Join(enabledCgroups[h], ",") : h \in DOMAIN enabledCgroups}

IsBindOp(o) == o.op = "mount" /\ "MS_BIND" \in o.flags /\ "MS_REMOUNT" \notin o.flags

IsRemountOp(o) == o.op = "mount" /\ "MS_REMOUNT" \in o.flags

IsControllerRemount(o, c) ==
    o.fn = RL /\ IsRemountOp(o) /\ o.path = ControllerPath(c)

\* the kernel shows file f in the directories of controller directory c
KernelProvides(c, f) == f \in LegacyKernelFiles(c) \ absent

Returned(fn) == pc = Idle /\ results # <<>> /\ LastResult.fn = fn

Succeeded(fn) == Returned(fn) /\ LastResult.err = "nil"

Failed == pc = Idle /\ ops # <<>> /\ LastResult.err # "nil"

\* the steps of fixCpusetKnobs, whose errors are ignored
BestEffort(o) == o.step \in {"FixMkdir", "ReadChild", "ReadParent", "Write1", "Write2"}

----------------------------------------------------------------------------
(* C1: in RemountLegacyCgroupsRO every bind-mount of a whitelist file under a
   controller's service cgroups comes before that controller's read-only
   remount: when the remount of c is made, every whitelist file the kernel
   provides has its bind-mount already, for every service, and a bind-mount
   under c is never made after the remount of c. *)
C1_BindsBeforeControllerRO ==
    ops # <<>> =>
        \A c \in ControllerDirs :
            /\ IsControllerRemount(Last, c) =>
                   \A s \in SeqRange(serviceNames) :
                       \A f \in SeqRange(getLegacyControllerRWFiles(c)) :
                           KernelProvides(c, f) =>
                               \E j \in Earlier :
                                   /\ IsBindOp(ops[j])
                                   /\ ops[j].path = CgroupFilePath(c, s, f)
                                   /\ ops[j].res = "ok"
            /\ (Last.fn = RL /\ IsBindOp(Last) /\ IsPrefix(ControllerPath(c), Last.path)) =>
                   \A j \in Earlier : ~IsControllerRemount(ops[j], c)

C1_Witness ==
    \E i, j \in DOMAIN ops : \E c \in ControllerDirs :
        /\ j < i
        /\ IsControllerRemount(ops[i], c)
        /\ ops[i].res = "ok"
        /\ IsBindOp(ops[j])
        /\ ops[j].res = "ok"
        /\ IsPrefix(ControllerPath(c), ops[j].path)

----------------------------------------------------------------------------
(* Writability after a lockdown *)

\* A path is writable exactly when the newest mount at its deepest covering
\* mount point is: what is writable below a path is decided at the mount points.
TopMount(tbl, m) == tbl[m][Len(tbl[m])]

WritableMountPointsUnder(p) ==
    {m \in DOMAIN mounts : IsPrefix(p, m) /\ ~TopMount(mounts, m).ro}

Prefixes(p, from) == {SubSeq(p, 1, k) : k \in from..Len(p)}

\* p is a whitelist file of a service cgroup, bind-mounted onto itself
IsWhitelistBind(p) ==
    /\ p \in DOMAIN mounts
    /\ TopMount(mounts, p).bind
    /\ \E c \in ControllerDirs : \E s \in SeqRange(serviceNames) :
           \E f \in SeqRange(getLegacyControllerRWFiles(c)) : p = CgroupFilePath(c, s, f)

----------------------------------------------------------------------------
(* C2: after CreateLegacyCgroups and then a successful RemountLegacyCgroupsRO,
   <root>/sys, the cgroup tmpfs and every controller mount point are
   read-only, and every path under <root>/sys that is still writable is a
   whitelist file of a service cgroup that was bind-mounted onto itself: no
   service directory and no other file of a service cgroup is writable. *)
C2_OnlyWhitelistWritable ==
    Succeeded(RL) =>
        /\ ~Writable(SysPath)
        /\ ~Writable(CgroupTmpfs)
        /\ \A c \in ControllerDirs : ~Writable(ControllerPath(c))
        /\ \A m \in WritableMountPointsUnder(SysPath) : IsWhitelistBind(m)
        /\ \A c \in ControllerDirs : \A s \in SeqRange(serviceNames) :
               /\ ~Writable(LegacySubcgroupPath(c))
               /\ ~Writable(AppCgroup(c, s))
               /\ \A f \in LegacyKernelFiles(c) :
                      Writable(CgroupFilePath(c, s, f)) =>
                          IsWhitelistBind(CgroupFilePath(c, s, f))

C2_Witness ==
    /\ Succeeded(RL)
    /\ \E c \in ControllerDirs : \E s \in SeqRange(serviceNames) :
           /\ Writable(CgroupFilePath(c, s, <<"memory.limit_in_bytes">>))
           /\ FileExists(CgroupFilePath(c, s, <<"tasks">>))
           /\ ~Writable(CgroupFilePath(c, s, <<"tasks">>))
           /\ ~Writable(AppCgroup(c, s))

----------------------------------------------------------------------------
(* C3: in the legacy lockdown cgroup.procs is part of the RW file set of
   every controller, also of one without whitelist entry: when a controller
   is remounted read-only, the cgroup.procs file of every service cgroup, if
   the kernel provides it, has been bind-mounted onto itself. *)
C3_ProcsAlwaysBound ==
    ops # <<>> =>
        \A c \in ControllerDirs :
            (IsControllerRemount(Last, c) /\ KernelProvides(c, <<"cgroup.procs">>)) =>
                \A s \in SeqRange(serviceNames) :
                    \E j \in Earlier :
                        /\ IsBindOp(ops[j])
                        /\ ops[j].path = CgroupFilePath(c, s, <<"cgroup.procs">>)
                        /\ ops[j].src = ops[j].path
                        /\ ops[j].res = "ok"

----------------------------------------------------------------------------
(* C4: in RemountLegacyCgroupsRO every file of a controller's RW file list
   is looked up once in every service cgroup; a file that exists is
   bind-mounted onto itself (source = target) next, and only then; for a
   file that does not exist no mount is attempted, no error is returned and
   the routine goes on with what is left. *)
IsStatOp(o) == o.fn = RL /\ o.op = "stat"

IsSelfBind(o, p) ==
    o.op = "mount" /\ o.path = p /\ o.src = p /\ o.flags = {"MS_BIND"}

C4_ExistingBoundMissingSkipped ==
    (ops # <<>> /\ Last.fn = RL) =>
        /\ IsStatOp(Last) =>
               /\ Last.res \in {"ok", "ENOENT"}
               /\ (Last.res = "ok") <=> (Base(Last.path) \notin absent)
               /\ pc.fn = RL
               /\ \A j \in Earlier : ops[j].path # Last.path
        /\ (Len(ops) > 1 /\ IsStatOp(ops[Len(ops) - 1])) =>
               /\ ops[Len(ops) - 1].res = "ok" => IsSelfBind(Last, ops[Len(ops) - 1].path)
               /\ ops[Len(ops) - 1].res = "ENOENT" => Last.path # ops[Len(ops) - 1].path
        /\ IsBindOp(Last) =>
               /\ Len(ops) > 1
               /\ IsSelfBind(Last, Last.path)
               /\ \A j \in Earlier :
                      ops[j].path = Last.path =>
                          (j = Len(ops) - 1 /\ IsStatOp(ops[j]) /\ ops[j].res = "ok")
               /\ ops[Len(ops) - 1].path = Last.path
        /\ \A c \in ControllerDirs :
               IsControllerRemount(Last, c) =>
                   \A s \in SeqRange(serviceNames) :
                       \A f \in SeqRange(getLegacyControllerRWFiles(c)) :
                           \E j \in Earlier :
                               /\ IsStatOp(ops[j])
                               /\ ops[j].path = CgroupFilePath(c, s, f)
                               /\ KernelProvides(c, f) =>
                                      (IsSelfBind(ops[j + 1], ops[j].path)
                                           /\ ops[j + 1].res = "ok")

C4_Witness ==
    /\ Succeeded(RL)
    /\ \E i, j \in DOMAIN ops :
           /\ i < j
           /\ IsStatOp(ops[i])
           /\ ops[i].res = "ENOENT"
           /\ IsStatOp(ops[j])
           /\ ops[j].res = "ok"
           /\ IsSelfBind(ops[j + 1], ops[j].path)
           /\ ops[j + 1].res = "ok"

----------------------------------------------------------------------------
(* C5: in RemountLegacyCgroupsRO and in RemountCgroupsRO the read-only
   remount of <root>/sys is the last operation: every cgroup mount point
   (each legacy controller, or the unified tree) has been remounted
   read-only before it, every bind-mount precedes it, no step before it
   failed, and a run that succeeds ends with it. *)
IsSysRemount(o) == o.fn \in {RL, RC} /\ IsRemountOp(o) /\ o.path = SysPath

----------------------------------------------------------------------------
(* C6: after a successful RemountCgroupsRO the cgroup tree and <root>/sys
   are read-only and the paths under <root>/sys/fs/cgroup that are still
   writable are exactly the files of the fixed RW-file list in the
   container's subcgroup. *)
UnifiedDirs == Prefixes(UnifiedSubcgroupPath, Len(CgroupTmpfs))

UnifiedProbePaths ==
    UnifiedDirs \cup {d \o <<f>> : d \in UnifiedDirs, f \in UnifiedKernelFiles}

C6_ExactlyRWFilesWritable ==
    Succeeded(RC) =>
        /\ ~Writable(SysPath)
        /\ ~Writable(CgroupTmpfs)
        /\ {p \in UnifiedProbePaths : Writable(p)}
               = {UnifiedSubcgroupPath \o <<f>> : f \in SeqRange(getControllersRWFiles)}

----------------------------------------------------------------------------
(* C7: in CreateLegacyCgroups, CreateCgroups, RemountLegacyCgroupsRO and
   RemountCgroupsRO the first failing mkdir, mount, symlink or remount, the
   tolerated EBUSY of the legacy sysfs mount apart, ends the operation: the
   error is returned, no later operation is made, and what the earlier steps
   made stays in place. *)
IsStep(o) == o.op \in {"mkdir", "mount", "symlink"}

ToleratedBusy(o) == o.fn = CL /\ o.op = "mount" /\ o.fstype = "sysfs" /\ o.res = "EBUSY"

FailingStep(o) == IsStep(o) /\ o.res # "ok" /\ ~ToleratedBusy(o)

\* the newest operation is the call's last: the call returned its error
EndsTheCall ==
    /\ pc = Idle
    /\ LastResult = [fn |-> Last.fn, err |-> Last.res]

\* what a successful operation made is there
StaysInPlace(o) ==
    CASE o.op = "mkdir" -> DirExists(o.path)
      [] o.op = "symlink" -> [name |-> o.path, tgt |-> o.data] \in links
      [] o.op = "mount" /\ "MS_REMOUNT" \in o.flags ->
             o.path \in DOMAIN mounts /\ ("MS_RDONLY" \in o.flags => ~Writable(o.path))
      [] o.op = "mount" -> o.path \in DOMAIN mounts
      [] OTHER -> TRUE

NothingUndone ==
    /\ \A j \in DOMAIN ops : (IsStep(ops[j]) /\ ops[j].res = "ok") => StaysInPlace(ops[j])
    /\ \A m \in DOMAIN before :
           m \in DOMAIN mounts /\ Len(mounts[m]) >= Len(before[m])

C7_FirstFailureEnds ==
    ops # <<>> =>
        /\ FailingStep(Last) => EndsTheCall
        /\ \A j \in Earlier : ~FailingStep(ops[j])
        /\ Failed => NothingUndone

(* C7, amended: the same, the best-effort steps of the cpuset workaround
   (fixCpusetKnobs, whose errors are ignored) apart. *)
C7_FirstFailureEndsButCpusetFix ==
    ops # <<>> =>
        /\ (FailingStep(Last) /\ ~BestEffort(Last)) => EndsTheCall
        /\ BestEffort(Last) => pc.fn = RL
        /\ \A j \in Earlier : FailingStep(ops[j]) => BestEffort(ops[j])
        /\ Failed => NothingUndone

C7_Witness ==
    /\ pc = Idle
    /\ ops # <<>>
    /\ LastResult.fn = RL
    /\ LastResult.err = "EPERM"
    /\ ops[Len(ops)].res = "EPERM"
    /\ IsBindOp(ops[Len(ops)])
    /\ \E j \in DOMAIN ops : ops[j].op = "mkdir" /\ ops[j].res = "ok" /\ DirExists(ops[j].path)
    /\ \E j \in DOMAIN ops : IsBindOp(ops[j]) /\ ops[j].res = "ok"
                                 /\ ops[j].path \in DOMAIN mounts

----------------------------------------------------------------------------
(* C8: CreateLegacyCgroups makes its steps in this order: sysfs at
   <root>/sys, the tmpfs at <root>/sys/fs/cgroup, one cgroup mount per
   hierarchy whose directory name and mount data are the hierarchy's
   controller names joined with commas, the symlinks of the combined
   controllers, the systemd directory, and last the read-only remount of
   the tmpfs; whatever is made inside the tmpfs is made before that remount,
   and a successful run has made all of it. *)
IsCgroupMount(o) == o.op = "mount" /\ o.fstype = "cgroup"

IsTmpfsRemount(o) == IsRemountOp(o) /\ o.path = CgroupTmpfs

StepRank(o) ==
    CASE o.op = "mkdir" /\ o.path = SysPath -> 1
      [] o.op = "mount" /\ o.fstype = "sysfs" -> 2
      [] o.op = "mkdir" /\ o.path = CgroupTmpfs -> 3
      [] o.op = "mount" /\ o.fstype = "tmpfs" -> 4
      [] o.op = "mkdir" /\ o.path = SystemdControllerPath -> 7
      [] o.op = "mkdir" -> 5
      [] IsCgroupMount(o) -> 5
      [] o.op = "symlink" -> 6
      [] IsTmpfsRemount(o) -> 8
      [] OTHER -> 0

\* s is the names of group g with a comma between each two
CommaJoined(s, g) ==
    /\ Len(s) = 2 * Len(g) - 1
    /\ \A k \in 1..Len(g) : <<s[2 * k - 1]>> = g[k]
    /\ \A k \in 1..(Len(g) - 1) : s[2 * k] = ","

InCreateLegacy == ops # <<>> /\ ops[1].fn = CL

C8_CreateLegacyOrder ==
    InCreateLegacy =>
        /\ StepRank(Last) > 0
        /\ \A j \in Earlier : StepRank(ops[j]) <= StepRank(Last)
        /\ \A r \in {1, 2, 3, 4, 5} :
               r < StepRank(Last) => \E j \in Earlier : StepRank(ops[j]) = r
        /\ (IsPrefix(CgroupTmpfs, Last.path) /\ ~IsTmpfsRemount(Last)) =>
               \A j \in Earlier : ~IsTmpfsRemount(ops[j])
        /\ IsCgroupMount(Last) =>
               /\ Last.path = CgroupTmpfs \o <<Last.data>>
               /\ \E h \in DOMAIN enabledCgroups : CommaJoined(Last.data, enabledCgroups[h])
               /\ Len(ops) > 1
               /\ ops[Len(ops) - 1].op = "mkdir"
               /\ ops[Len(ops) - 1].path = Last.path
               /\ \A j \in Earlier : IsCgroupMount(ops[j]) => ops[j].data # Last.data
        /\ StepRank(Last) >= 7 =>
               /\ \A h \in DOMAIN enabledCgroups :
                      \E j \in Earlier :
                          /\ IsCgroupMount(ops[j])
                          /\ ops[j].res = "ok"
                          /\ CommaJoined(ops[j].data, enabledCgroups[h])
               /\ \A h \in DOMAIN enabledCgroups :
                      Len(enabledCgroups[h]) > 1 =>
                          \A k \in DOMAIN enabledCgroups[h] :
                              \E j \in Earlier :
                                  /\ ops[j].op = "symlink"
                                  /\ ops[j].path = CgroupTmpfs \o <<enabledCgroups[h][k]>>
                                  /\ CommaJoined(ops[j].data, enabledCgroups[h])
        /\ Succeeded(CL) =>
               /\ IsTmpfsRemount(Last)
               /\ Last.res = "ok"
               /\ "MS_RDONLY" \in Last.flags
               /\ \E j \in Earlier : StepRank(ops[j]) = 7 /\ ops[j].res = "ok"
               /\ ~Writable(CgroupTmpfs)

C8_Witness ==
    /\ Succeeded(CL)
    /\ IsTmpfsRemount(ops[Len(ops)])
    /\ \E i, j \in DOMAIN ops :
           /\ i < j
           /\ IsCgroupMount(ops[i])
           /\ Len(ops[i].data) = 1
           /\ IsCgroupMount(ops[j])
           /\ Len(ops[j].data) = 3
    /\ \E j \in DOMAIN ops : ops[j].op = "symlink" /\ ops[j].res = "ok"

----------------------------------------------------------------------------
(* C9: in CreateLegacyCgroups EBUSY from the sysfs mount counts as success
   and the routine goes on to the tmpfs; any other error of the sysfs
   mount, and any error at all, EBUSY too, of the tmpfs mount or of a
   controller's cgroup mount, is returned. *)
IsSysfsMount(o) == o.fn = CL /\ o.op = "mount" /\ o.fstype = "sysfs"

C9_OnlySysfsBusyTolerated ==
    InCreateLegacy =>
        /\ IsSysfsMount(Last) =>
               IF Last.res \in {"ok", "EBUSY"} THEN pc.fn = CL ELSE EndsTheCall
        /\ (Len(ops) > 1 /\ IsSysfsMount(ops[Len(ops) - 1])) =>
               (Last.op = "mkdir" /\ Last.path = CgroupTmpfs)
        /\ (Len(ops) > 2 /\ IsSysfsMount(ops[Len(ops) - 2])) =>
               (Last.op = "mount" /\ Last.fstype = "tmpfs")
        /\ (Last.op = "mount" /\ Last.fstype \in {"tmpfs", "cgroup"} /\ Last.res # "ok") =>
               EndsTheCall

C9_Witness ==
    /\ Returned(CL)
    /\ LastResult.err = "EBUSY"
    /\ \E i \in DOMAIN ops : IsSysfsMount(ops[i]) /\ ops[i].res = "EBUSY"
    /\ ops[Len(ops)].op = "mount"
    /\ ops[Len(ops)].fstype \in {"tmpfs", "cgroup"}
    /\ ops[Len(ops)].res = "EBUSY"

----------------------------------------------------------------------------
(* C10: a second RemountLegacyCgroupsRO with the same arguments, on the
   tree the first one locked down, succeeds (no failure injected) and
   changes no path's writability: the mount points are the same, each as
   writable as before, so the bind-mounted whitelist files stay writable
   and what was read-only stays read-only; its remounts act on mount points
   that are read-only already. *)
InRerun ==
    \/ pc.fn = RL /\ Lockdowns >= 1
    \/ Returned(RL) /\ Lockdowns >= 2

Injected(o) == o.res \in {"EPERM", "EIO", "EBUSY"}

C10_RerunKeepsWritability ==
    InRerun =>
        /\ DOMAIN mounts = DOMAIN before
        /\ \A m \in DOMAIN mounts : TopMount(mounts, m).ro = TopMount(before, m).ro
        /\ ops # <<>> =>
               /\ IsRemountOp(Last) => ~WritableIn(before, Last.path)
               /\ (Last.res # "ok" /\ ~Injected(Last)) =>
                      (Last.op = "stat" \/ BestEffort(Last))
        /\ Returned(RL) =>
               /\ (\A i \in DOMAIN ops : ~Injected(ops[i])) => LastResult.err = "nil"
               /\ \A c \in ControllerDirs : \A s \in SeqRange(serviceNames) :
                      \A f \in SeqRange(getLegacyControllerRWFiles(c)) :
                          /\ WritableIn(before, CgroupFilePath(c, s, f))
                                 = Writable(CgroupFilePath(c, s, f))
                          /\ KernelProvides(c, f) => Writable(CgroupFilePath(c, s, f))
               /\ \A c \in ControllerDirs :
                      /\ ~WritableIn(before, ControllerPath(c))
                      /\ ~Writable(ControllerPath(c))

C10_Witness ==
    /\ Succeeded(RL)
    /\ Lockdowns >= 2
    /\ \E i \in DOMAIN ops : IsControllerRemount(ops[i], <<"memory">>) /\ ops[i].res = "ok"
    /\ \E s \in SeqRange(serviceNames) :
           /\ WritableIn(before, CgroupFilePath(<<"memory">>, s, <<"cgroup.procs">>))
           /\ Writable(CgroupFilePath(<<"memory">>, s, <<"cgroup.procs">>))
           /\ Len(mounts[CgroupFilePath(<<"memory">>, s, <<"cgroup.procs">>)]) = 2
    /\ ~WritableIn(before, SysPath)
    /\ ~Writable(SysPath)

----------------------------------------------------------------------------
(* Properties of the queries and helpers (specification SpecRoutines) *)

Called(fn) == call.fn = fn /\ ret # NoCall

\* the rows of the file in hand, and what the kernel meant by a row it printed
FileRows == AfterHeader(call.file.lines)

RowOf(line) ==
    CHOOSE r \in [c : CtrlNames, h : {2, 11}, e : {0, 1}] : Row(r.c, r.h, 1, r.e) = line

ReadWhole == call.file.open /\ ~call.file.readErr

KernelPrinted == \A i \in DOMAIN FileRows : FileRows[i] \in WellFormedRows

\* the places of a name in the returned map
PlacesOf(name) ==
    {hk \in UNION {{<<h, k>> : k \in DOMAIN ret.cgroups[h]} : h \in DOMAIN ret.cgroups} :
        ret.cgroups[hk[1]][hk[2]] = name}

\* C11: for a /proc/cgroups the kernel printed, the map GetEnabledLegacyCgroups
\* returns holds, for every row whose enabled field is 1, the row's name once,
\* under the row's hierarchy id; it holds nothing else (no name of a row whose
\* enabled field is not 1, no empty group); and within a group the names are
\* in the order of their rows.
C11_EnabledRowsGrouped ==
    (Called("GetEnabledLegacyCgroups") /\ ReadWhole /\ KernelPrinted) =>
        /\ ret.err = "nil"
        /\ \A i \in DOMAIN FileRows :
             LET r == RowOf(FileRows[i])
             IN  PlacesOf(r.c) = IF r.e = 1
                                 THEN {hk \in PlacesOf(r.c) : hk[1] = r.h}
                                 ELSE {}
        /\ \A i \in DOMAIN FileRows :
             RowOf(FileRows[i]).e = 1 => Cardinality(PlacesOf(RowOf(FileRows[i]).c)) = 1
        /\ \A h \in DOMAIN ret.cgroups :
             /\ ret.cgroups[h] # <<>>
             /\ \A k \in DOMAIN ret.cgroups[h] :
                  \E i \in DOMAIN FileRows : RowOf(FileRows[i]).c = ret.cgroups[h][k]
             /\ \A k1, k2 \in DOMAIN ret.cgroups[h] :
                  k1 < k2 =>
                    \E i1, i2 \in DOMAIN FileRows :
                       /\ i1 < i2
                       /\ RowOf(FileRows[i1]).c = ret.cgroups[h][k1]
                       /\ RowOf(FileRows[i2]).c = ret.cgroups[h][k2]

\* a group of two controllers was returned, from a file that also lists a
\* disabled controller
C11_Witness ==
    /\ Called("GetEnabledLegacyCgroups") /\ ReadWhole /\ KernelPrinted
    /\ \E h \in DOMAIN ret.cgroups : Len(ret.cgroups[h]) = 2
    /\ \E i \in DOMAIN FileRows : RowOf(FileRows[i]).e = 0

\* a name followed by three integers, and nothing else
IsRow(line) ==
    LET toks == SelectSeq(Split(line, " "), LAMBDA t : t # <<>>)
    IN  /\ Len(toks) = 4
        /\ \A i \in 2..4 : \A k \in DOMAIN toks[i] : toks[i][k] \in SeqRange(Digits)

\* C12: when a line of /proc/cgroups after the header is not a name followed
\* by three integers, GetEnabledLegacyCgroups returns an error and no map.
C12_MalformedLineIsError ==
    (Called("GetEnabledLegacyCgroups") /\ call.file.open
       /\ \E i \in DOMAIN FileRows : ~IsRow(FileRows[i])) =>
        (ret.err # "nil" /\ ret.cgroups = <<>>)

\* C13: IsIsolatorSupported(name) is true exactly when /proc/cgroups has, after
\* the header, a row with enabled field 1 whose name starts with name.
C13_SupportedIffEnabledRow ==
    (Called("IsIsolatorSupported") /\ ReadWhole /\ KernelPrinted) =>
        (ret.supported <=>
           \E i \in DOMAIN FileRows :
              /\ RowOf(FileRows[i]).e = 1
              /\ IsPrefix(call.isolator, RowOf(FileRows[i]).c))

\* v is the decimal numeral of n, followed by "%"
IsPercentOf(v, n) ==
    LET ds == SubSeq(v, 1, Len(v) - 1)
    IN  /\ Len(v) >= 2
        /\ v[Len(v)] = "%"
        /\ \A k \in DOMAIN ds : ds[k] \in SeqRange(Digits)
        /\ (Len(ds) > 1 => ds[1] # "0")
        /\ DecimalValue(ds) = n

\* addCpuLimit returned the options it was given and, after them, one
\* CPUQuota option for m millicores
QuotaAppended(m) ==
    /\ ret.err = "nil"
    /\ Len(ret.opts) = Len(call.opts) + 1
    /\ SubSeq(ret.opts, 1, Len(call.opts)) = call.opts
    /\ ret.opts[Len(ret.opts)].section = "Service"
    /\ ret.opts[Len(ret.opts)].name = "CPUQuota"
    /\ IsPercentOf(ret.opts[Len(ret.opts)].value, m \div 10)

\* C14 as stated: a quantity of m millicores gets its CPUQuota option of
\* floor(m / 10) percent whenever m is representable (m <= MaxInt64), and an
\* error and no options whenever it is not.
C14_QuotaIffRepresentable ==
    Called("addCpuLimit") =>
        /\ call.limit.milli <= MaxInt64 => QuotaAppended(call.limit.milli)
        /\ call.limit.milli > MaxInt64 => (ret.err # "nil" /\ ret.opts = <<>>)

\* C14, amended: a quantity of m millicores gets its CPUQuota option of
\* floor(m / 10) percent whenever its whole units, rounded up, do not exceed
\* MaxMilliValue (m <= 1000 * MaxMilliValue, and then m is representable);
\* every other quantity gets an error and no options, so that no option is
\* made from a millicore value that is not representable.
C14_QuotaIffUnitsFit ==
    Called("addCpuLimit") =>
        /\ call.limit.milli <= 1000 * MaxMilliValue =>
              (QuotaAppended(call.limit.milli) /\ call.limit.milli <= MaxInt64)
        /\ call.limit.milli > 1000 * MaxMilliValue => (ret.err # "nil" /\ ret.opts = <<>>)

\* 500 millicores gave "50%"
C14_Witness ==
    /\ Called("addCpuLimit")
    /\ call.limit.milli = 500
    /\ ret.err = "nil"
    /\ ret.opts[Len(ret.opts)].value = <<"5", "0", "%">>

\* the inventory can be read and no line after its header starts with the
\* name of the kind asked for: IsIsolatorSupported says no
NotListed ==
    /\ call.file.open
    /\ \A i \in DOMAIN FileRows : ~IsPrefix(call.isolator, FileRows[i])

\* C15: MaybeAddIsolator with a quantity, for a kind the inventory does not
\* list, returns the options it was given and no error; it consults the
\* inventory and prints a warning, and invokes no translator.
C15_UnsupportedLeavesOptions ==
    (Called("MaybeAddIsolator") /\ ~call.limit.nil /\ NotListed) =>
        /\ ret.opts = call.opts
        /\ ret.err = "nil"
        /\ ret.did = <<"IsIsolatorSupported", "warning">>

\* a cpu limit on a host whose inventory lists memory only, with an option
\* already in the list
C15_Witness ==
    /\ Called("MaybeAddIsolator") /\ ~call.limit.nil /\ NotListed
    /\ call.isolator = <<"cpu">>
    /\ \E i \in DOMAIN FileRows : RowOf(FileRows[i]).c = <<"memory">>
    /\ call.opts # <<>>
    /\ ret.opts = call.opts

\* C16: MaybeAddIsolator without a quantity returns the options it was given
\* and no error, for every kind, and does nothing else: the inventory is not
\* consulted, so it does not matter whether /proc/cgroups can be read.
C16_NilLimitIsNoOp ==
    (Called("MaybeAddIsolator") /\ call.limit.nil) =>
        /\ ret.opts = call.opts
        /\ ret.err = "nil"
        /\ ret.did = <<>>

\* no quantity, an option already in the list, and /proc/cgroups unreadable
C16_Witness ==
    /\ Called("MaybeAddIsolator") /\ call.limit.nil
    /\ ~call.file.open
    /\ call.opts # <<>>
    /\ ret.opts = call.opts
    /\ ret.err = "nil"

\* the places of the first two colons of line i of the file in hand
Colons(i) == {k \in DOMAIN call.file.lines[i] : call.file.lines[i][k] = ":"}

FirstColon(i) == CHOOSE k \in Colons(i) : \A j \in Colons(i) : k <= j

SecondColon(i) ==
    CHOOSE k \in Colons(i) \ {FirstColon(i)} : \A j \in Colons(i) \ {FirstColon(i)} : k <= j

ThreeFields(i) == Cardinality(Colons(i)) >= 2

\* line i has three fields and the controller asked for stands in its second
\* field between commas or the ends of the field
ListedOn(i) ==
    LET c == call.controller
        lo == FirstColon(i) + 1
        hi == SecondColon(i) - 1
        line == call.file.lines[i]
    IN  /\ ThreeFields(i)
        /\ \E k \in lo..hi :
              /\ k + Len(c) - 1 <= hi
              /\ SubSeq(line, k, k + Len(c) - 1) = c
              /\ k = lo \/ line[k - 1] = ","
              /\ k + Len(c) - 1 = hi \/ line[k + Len(c)] = ","

\* everything after the second colon of line i
PathField(i) ==
    SubSeq(call.file.lines[i], SecondColon(i) + 1, Len(call.file.lines[i]))

C18_SymlinksOfCombinedGroups ==
    Called("getLegacyControllerSymlinks") =>
        /\ DOMAIN ret.symlinks =
              UNION {SeqRange(call.cgroups[h]) :
                        h \in {g \in DOMAIN call.cgroups : Len(call.cgroups[g]) > 1}}
        /\ \A h \in DOMAIN call.cgroups :
              Len(call.cgroups[h]) > 1 =>
                 \A k \in DOMAIN call.cgroups[h] :
                    CommaJoined(ret.symlinks[call.cgroups[h][k]], call.cgroups[h])
        /\ \A ln \in DOMAIN ret.symlinks : ret.symlinks[ln] # ln

\* a map with a group of two and a group of one gave two entries
C18_Witness ==
    /\ Called("getLegacyControllerSymlinks")
    /\ \E h \in DOMAIN call.cgroups : Len(call.cgroups[h]) = 1
    /\ \E h \in DOMAIN call.cgroups : Len(call.cgroups[h]) = 2
    /\ Cardinality(DOMAIN ret.symlinks) = 2

\* C21: for a /proc/<pid>/cgroup that can be opened, GetCgroupPathByPid (and
\* GetOwnCgroupPath) returns everything after the second colon of the first
\* line, colons included, when the first line has two colons or more; when it
\* has fewer, or the file has no line, it returns the parse error and no
\* path.  The lines after the first have no part in the answer.
C21_PathOfFirstLineOnly ==
    (Called("GetCgroupPathByPid") /\ call.file.open) =>
        /\ (call.file.lines # <<>> /\ ThreeFields(1)) =>
              (ret.err = "nil" /\ ret.path = PathField(1))
        /\ (call.file.lines = <<>> \/ ~ThreeFields(1)) =>
              (ret.err = "error parsing /proc/self/cgroup" /\ ret.path = <<>>)
        /\ \A n \in 1..Len(call.file.lines) :
              ret = parseProcCgroupInfo([call.file EXCEPT
                                            !.lines = SubSeq(call.file.lines, 1, n)])

\* the first line has a colon in its path and is followed by a line of
\* another path
C21_Witness ==
    /\ Called("GetCgroupPathByPid") /\ call.file.open
    /\ Len(call.file.lines) >= 2
    /\ call.file.lines[2] = <<"0", ":", ":", "/e">>
    /\ ret.err = "nil"
    /\ ret.path = <<"/c", ":", "d">>

----------------------------------------------------------------------------
(* Properties of the cpuset workaround (specification Spec) *)

Previous == ops[Len(ops) - 1]

UnderCpuset(o) == IsPrefix(ControllerPath(<<"cpuset">>), o.path)

\* where RemountLegacyCgroupsRO goes on after fixCpusetKnobs
AfterWorkaround ==
    /\ controllers[pc.ci] = <<"cpuset">>
    /\ IF serviceNames = <<>> THEN pc.sub = "RemountControllerRO"
       ELSE pc.sub = "MkdirApp" /\ pc.si = 1

\* C19: the steps of fixCpusetKnobs are made in RemountLegacyCgroupsRO, for
\* the cpuset controller and before anything else is done for it, and whatever
\* a step answers the call goes on: with the next step of the workaround or,
\* after it, with the first service directory of cpuset (its read-only remount
\* when there is no service).  A knob of the parent is read exactly when the
\* child's knob was read and is empty, and when the parent's is read too its
\* value is written to the child's knob, and then written once more.
C19_WorkaroundNeverFails ==
    /\ (ops # <<>> /\ BestEffort(Last)) =>
          /\ Last.fn = RL /\ UnderCpuset(Last)
          /\ pc.fn = RL
          /\ pc.sub \in {"ReadChild", "ReadParent", "Write1", "Write2"} \/ AfterWorkaround
          /\ Last.step = "FixMkdir" => pc.sub = "ReadChild"
          /\ Last.step = "ReadChild" =>
                (pc.sub = "ReadParent" <=> (Last.res = "ok" /\ Last.data = <<>>))
          /\ Last.step = "ReadParent" =>
                /\ Previous.step = "ReadChild" /\ Previous.res = "ok" /\ Previous.data = <<>>
                /\ Base(Last.path) = Base(Previous.path)
                /\ Dir(Last.path) = Dir(Dir(Previous.path))
                /\ pc.sub = "Write1" <=> Last.res = "ok"
          /\ Last.step = "Write1" =>
                /\ Previous.step = "ReadParent" /\ Previous.res = "ok"
                /\ Last.op = "write" /\ Last.data = Previous.data
                /\ Last.path = ops[Len(ops) - 2].path
                /\ pc.sub = "Write2"
          /\ Last.step = "Write2" =>
                /\ Previous.step = "Write1"
                /\ Last.op = "write" /\ Last.data = Previous.data
                /\ Last.path = Previous.path
    /\ (ops # <<>> /\ Last.fn = RL /\ ~BestEffort(Last) /\ UnderCpuset(Last)) =>
          \E j \in Earlier :
             /\ ops[j].step = "FixMkdir"
             /\ \A i \in 1..(j - 1) : ~UnderCpuset(ops[i])

\* a call that returned nil although a step of the workaround failed, and in
\* which a knob was written twice
C19_Witness ==
    /\ Succeeded(RL)
    /\ \E j \in DOMAIN ops : BestEffort(ops[j]) /\ ops[j].res \in {"EPERM", "EIO"}
    /\ \E j \in DOMAIN ops : ops[j].step = "Write2" /\ ops[j].res = "ok"
    /\ \E j \in DOMAIN ops : ops[j].step = "MkdirApp" /\ UnderCpuset(ops[j])

----------------------------------------------------------------------------
(* Properties of the unified build (specification Spec) *)

InCreateCgroups == ops # <<>> /\ ops[1].fn = CC

\* the system calls of CreateCgroups, in the order of its text
UnifiedBuildCalls ==
    << [op |-> "mkdir", path |-> SysPath, fstype |-> "", flags |-> {}],
       [op |-> "mount", path |-> SysPath, fstype |-> "sysfs",
        flags |-> {"MS_NOSUID", "MS_NOEXEC", "MS_NODEV"}],
       [op |-> "mkdir", path |-> Root \o << <<"sys">>, <<"fs">>, <<"cgroup">> >>,
        fstype |-> "", flags |-> {}],
       [op |-> "mount", path |-> Root \o << <<"sys">>, <<"fs">>, <<"cgroup">> >>,
        fstype |-> "cgroup2",
        flags |-> {"MS_NOSUID", "MS_NOEXEC", "MS_NODEV", "MS_STRICTATIME"}],
       [op |-> "mkdir",
        path |-> Root \o << <<"sys">>, <<"fs">>, <<"cgroup">>, <<"machine.slice">> >>,
        fstype |-> "", flags |-> {}] >>

\* C22: the system calls of CreateCgroups are, in this order and each made
\* only after the one before it succeeded: the directory <root>/sys, the
\* mount of sysfs on it, the directory <root>/sys/fs/cgroup, the mount of one
\* cgroup2 file system on it (nosuid, noexec, nodev, strictatime, no data),
\* the directory machine.slice under it.  There is no other call: no symlink,
\* no mount of a controller, no remount.  The call returns nil exactly when
\* the fifth succeeded, and then <root>/sys/fs/cgroup and machine.slice lie in
\* the cgroup2 mount, writable, and no link was made.
C22_UnifiedBuildSteps ==
    InCreateCgroups =>
        /\ Len(ops) <= 5
        /\ LET want == UnifiedBuildCalls[Len(ops)]
           IN  /\ Last.fn = CC
               /\ Last.op = want.op
               /\ Last.path = want.path
               /\ Last.fstype = want.fstype
               /\ Last.flags = want.flags
               /\ Last.data = <<>>
        /\ \A j \in Earlier : ops[j].res = "ok"
        /\ pc = Idle <=> (Last.res # "ok" \/ Len(ops) = 5)
        /\ pc = Idle => (LastResult.fn = CC /\ (LastResult.err = "nil" <=> Last.res = "ok"))
        /\ Succeeded(CC) =>
              /\ Len(ops) = 5
              /\ DOMAIN mounts = {SysPath, CgroupTmpfs}
              /\ Len(mounts[SysPath]) = 1 /\ Len(mounts[CgroupTmpfs]) = 1
              /\ FsTypeAt(CgroupTmpfs) = "cgroup2"
              /\ FsTypeAt(MachinePath) = "cgroup2"
              /\ Writable(SysPath) /\ Writable(CgroupTmpfs) /\ Writable(MachinePath)
              /\ DirExists(MachinePath)
              /\ links = {}

\* CreateCgroups returned nil
C22_Witness ==
    /\ InCreateCgroups
    /\ Succeeded(CC)
    /\ Len(ops) = 5
    /\ Last.op = "mkdir" /\ Last.path = MachinePath /\ Last.res = "ok"

----------------------------------------------------------------------------
(* Properties of JoinLegacySubcgroup and JoinSubcgroup (SpecRoutines) *)

Joining == call.fn \in {"JoinLegacySubcgroup", "JoinSubcgroup"} /\ ret # NoCall

\* /sys/fs/cgroup/<controller>/<subcgroup>, or /sys/fs/cgroup/<subcgroup>
JoinedDir ==
    IF call.fn = "JoinLegacySubcgroup"
    THEN << <<"sys">>, <<"fs">>, <<"cgroup">>, call.controller >> \o call.subcgroup
    ELSE << <<"sys">>, <<"fs">>, <<"cgroup">> >> \o call.subcgroup

\* data is the decimal numeral of n
IsDecimalOf(data, n) ==
    /\ data # <<>>
    /\ \A k \in DOMAIN data : data[k] \in SeqRange(Digits)
    /\ (Len(data) > 1 => data[1] # "0")
    /\ DecimalValue(data) = n

\* C20: JoinLegacySubcgroup and JoinSubcgroup first create the directory of
\* the subcgroup under /sys/fs/cgroup and only after that, and only when it
\* was created, write the decimal of their own pid to its cgroup.procs; they
\* do nothing else.  A failure of either step is returned, so that nil is
\* returned only when the pid was written.
C20_JoinCreatesThenWrites ==
    Joining =>
        /\ Len(ret.ops) \in {1, 2}
        /\ ret.ops[1].op = "mkdir" /\ ret.ops[1].path = JoinedDir
        /\ Len(ret.ops) = 2 =>
              /\ ret.ops[1].res = "ok"
              /\ ret.ops[2].op = "write"
              /\ ret.ops[2].path = JoinedDir \o << <<"cgroup.procs">> >>
              /\ IsDecimalOf(ret.ops[2].data, call.pid)
        /\ ret.ops[1].res # "ok" => (ret.pc = "done" /\ Len(ret.ops) = 1)
        /\ ret.pc = "done" <=> (ret.ops[1].res # "ok" \/ Len(ret.ops) = 2)
        /\ ret.pc = "done" =>
              /\ ret.err # "none"
              /\ ret.err = "nil" <=> (Len(ret.ops) = 2 /\ ret.ops[2].res = "ok")
        /\ ret.pc # "done" => (ret.pc = "WriteFile" /\ ret.err = "none")

\* JoinLegacySubcgroup returned nil after writing pid 1234 to cpu,cpuacct
C20_Witness ==
    /\ Joining
    /\ call.fn = "JoinLegacySubcgroup"
    /\ call.controller = <<"cpuacct", ",", "cpu">>
    /\ ret.pc = "done" /\ ret.err = "nil"
    /\ ret.ops[2].data = <<"1", "2", "3", "4">>

----------------------------------------------------------------------------
(* Properties of the translators (specification SpecRoutines) *)

\* the call returned the options it was given and, after them, one option
\* of the section Service
OneOptionAppended ==
    /\ ret.err = "nil"
    /\ Len(ret.opts) = Len(call.opts) + 1
    /\ SubSeq(ret.opts, 1, Len(call.opts)) = call.opts
    /\ ret.opts[Len(ret.opts)].section = "Service"

\* C23: addMemoryLimit never returns an error; it returns the options it was
\* given followed by one option MemoryLimit, whose value is the decimal
\* numeral of the quantity in whole bytes, rounded up: for a quantity of b
\* bytes, the numeral of b.
C23_MemoryLimitIsByteCount ==
    Called("addMemoryLimit") =>
        /\ OneOptionAppended
        /\ ret.opts[Len(ret.opts)].name = "MemoryLimit"
        /\ IsDecimalOf(ret.opts[Len(ret.opts)].value, (call.limit.milli + 999) \div 1000)
        /\ \A b \in 0..MaxInt64 :
              call.limit.milli = 1000 * b => IsDecimalOf(ret.opts[Len(ret.opts)].value, b)

\* 1342 bytes gave "1342", after the option that was there
C23_Witness ==
    /\ Called("addMemoryLimit")
    /\ call.limit.milli = 1342000
    /\ call.opts # <<>>
    /\ Len(ret.opts) = 2
    /\ ret.opts[2].value = <<"1", "3", "4", "2">>

\* the inventory can be read and a line after its header starts with the
\* name of the kind asked for: IsIsolatorSupported says yes
Listed ==
    /\ call.file.open
    /\ \E i \in DOMAIN FileRows : IsPrefix(call.isolator, FileRows[i])

\* C24: MaybeAddIsolator with a quantity, for the kind cpu or memory when the
\* inventory lists it, invokes the translator of the kind.  When the
\* translation succeeds (always for memory; for cpu when the whole units of
\* the quantity do not exceed MaxMilliValue) it returns the options it was
\* given, unchanged and in their order, followed by the one translated option
\* (CPUQuota of floor(m / 10) percent, MemoryLimit of the bytes rounded up),
\* and no error; when it fails it returns the error and no option at all.
C24_SupportedAppendsOneOption ==
    (Called("MaybeAddIsolator") /\ ~call.limit.nil /\ Listed
       /\ call.isolator \in { <<"cpu">>, <<"memory">> }) =>
        /\ ret.did = <<"IsIsolatorSupported", "isolatorFuncs">>
        /\ IF call.isolator = <<"memory">>
           THEN /\ OneOptionAppended
                /\ ret.opts[Len(ret.opts)].name = "MemoryLimit"
                /\ IsDecimalOf(ret.opts[Len(ret.opts)].value,
                               (call.limit.milli + 999) \div 1000)
           ELSE IF call.limit.milli <= 1000 * MaxMilliValue
           THEN /\ OneOptionAppended
                /\ ret.opts[Len(ret.opts)].name = "CPUQuota"
                /\ IsPercentOf(ret.opts[Len(ret.opts)].value, call.limit.milli \div 10)
           ELSE /\ ret.err = "cpu limit exceeds the maximum millivalue"
                /\ ret.opts = <<>>

\* a cpu limit of 500 millicores on a host that lists cpu, with an option
\* already in the list
C24_Witness ==
    /\ Called("MaybeAddIsolator") /\ ~call.limit.nil /\ Listed
    /\ call.isolator = <<"cpu">>
    /\ call.limit.milli = 500
    /\ call.opts # <<>>
    /\ Len(ret.opts) = 2
    /\ ret.opts[1] = call.opts[1]
    /\ ret.opts[2].value = <<"5", "0", "%">>

----------------------------------------------------------------------------
(* Properties of the whitelist of a hierarchy (specification SpecRoutines) *)

\* the controllers of the directory name in hand: what stands between its
\* commas
MembersOf ==
    LET c == call.controller
        cuts == <<0>> \o SelectSeq([k \in DOMAIN c |-> IF c[k] = "," THEN k ELSE 0],
                                   LAMBDA k : k # 0) \o <<Len(c) + 1>>
    IN  [i \in 1..(Len(cuts) - 1) |-> SubSeq(c, cuts[i] + 1, cuts[i + 1] - 1)]

\* C25: for the directory of several controllers mounted together,
\* getLegacyControllerRWFiles returns a list that holds every file of the
\* whitelist of every controller of the directory that has one, and
\* cgroup.procs exactly once.
C25_EveryMemberWhitelisted ==
    (Called("getLegacyControllerRWFiles") /\ Len(MembersOf) > 1) =>
        /\ \A i \in DOMAIN MembersOf :
              MembersOf[i] \in DOMAIN legacyCgroupControllerRWFiles =>
                 SeqRange(legacyCgroupControllerRWFiles[MembersOf[i]])
                    \subseteq SeqRange(ret.files)
        /\ Cardinality({k \in DOMAIN ret.files : ret.files[k] = <<"cgroup.procs">>}) = 1

----------------------------------------------------------------------------
(* Properties of parseApps (specification SpecRoutines) *)

\* the arguments the loop came to: those it passed, and the one it returned
\* an error at
Met == {k \in DOMAIN call.args : k <= Len(ret.trace) + 1}

\* the number of apps when the loop came to args[k]
AppsBefore(k) ==
    Len(call.al) + Cardinality({j \in 1..(k - 1) : ret.trace[j] = "image"})

\* args[k] was met outside an argument list
Outside(k) == k = 1 \/ ret.trace[k - 1] \notin {"begin", "appArg"}

\* args[k] was consumed as the value of the flag before it, and not met again
FlagValue(k) == k \in DOMAIN ret.trace /\ ret.trace[k] = "value"

\* an image was created before args[k] and after the "--" accepted last
\* before it (after the start, when there is none)
ImageSince(k) ==
    \E j \in 1..(k - 1) :
       /\ ret.trace[j] = "image"
       /\ \A m \in (j + 1)..(k - 1) : ret.trace[m] # "begin"

\* the arguments taken for arguments of app j, in their order
ArgsTaken(j) ==
    LET at == SelectSeq([k \in DOMAIN ret.trace |-> k],
                        LAMBDA k : ret.trace[k] = "appArg" /\ AppsBefore(k) = j)
    IN  [m \in DOMAIN at |-> call.args[at[m]]]

\* C26: parseApps accepts a "--" met outside an argument list (and not
\* consumed as the value of a flag) exactly when
\* allowAppArgs is true and an image was created since the "--" accepted
\* before it (since the start, for the first); at any other it returns
\* "app arguments unsupported" when allowAppArgs is false, else "an image is
\* required before any app arguments" when there is no app and "only one set
\* of app arguments allowed per image" when there is one.  So no app gets two
\* argument lists.  Every argument after an accepted "--" up to the next
\* "---" is appended, in order, to the Args of the app created last, whatever
\* it is (an image, a flag, "--"): the Args of every app are what it had
\* followed by these arguments, and apps are created from arguments met
\* outside the lists only.
C26_AppArgsOncePerImage ==
    Called("parseApps") =>
        /\ Len(ret.trace) <= Len(call.args)
        /\ ret.err = "nil" <=> Len(ret.trace) = Len(call.args)
        /\ \A k \in Met :
              (call.args[k] = "--" /\ Outside(k) /\ ~FlagValue(k)) =>
                 IF call.allowAppArgs /\ ImageSince(k)
                 THEN k \in DOMAIN ret.trace /\ ret.trace[k] = "begin"
                 ELSE /\ Len(ret.trace) = k - 1
                      /\ ret.err =
                            IF ~call.allowAppArgs THEN "app arguments unsupported"
                            ELSE IF AppsBefore(k) = 0
                            THEN "an image is required before any app arguments"
                            ELSE "only one set of app arguments allowed per image"
        /\ \A k \in DOMAIN ret.trace :
              /\ ret.trace[k] = "begin" => (call.args[k] = "--" /\ Outside(k))
              /\ ~Outside(k) =>
                    ret.trace[k] = IF call.args[k] = "---" THEN "end" ELSE "appArg"
              /\ Outside(k) => ret.trace[k] \in {"begin", "ignored", "flag", "value", "image"}
              /\ ret.trace[k] = "image" =>
                    /\ call.args[k] \notin {"--", "---"}
                    /\ ret.apps[AppsBefore(k) + 1].image = call.args[k]
        /\ \A k1, k2 \in DOMAIN ret.trace :
              (k1 < k2 /\ ret.trace[k1] = "begin" /\ ret.trace[k2] = "begin") =>
                 AppsBefore(k1) < AppsBefore(k2)
        /\ Len(ret.apps) = AppsBefore(Len(ret.trace) + 1)
        /\ \A j \in DOMAIN ret.apps :
              ret.apps[j].args =
                 (IF j \in DOMAIN call.al THEN call.al[j].args ELSE <<>>) \o ArgsTaken(j)

\* img -- --exec img --- : the flag and the image after the "--" are the
\* arguments of the one app, which has no exec
C26_Witness ==
    /\ Called("parseApps")
    /\ call.al = <<>>
    /\ call.args = <<"img", "--", "--exec", "img", "---">>
    /\ ret.err = "nil"
    /\ Len(ret.apps) = 1
    /\ ret.apps[1].args = <<"--exec", "img">>
    /\ ret.apps[1].exec = ""

----------------------------------------------------------------------------
(* Properties of the image type flags (specification SpecRoutines) *)

\* C27: Set of the flag --is-<t> returns "--is-<t> must follow an image" when
\* there is no app; else, looking at the image type of the last app: when it
\* is still guess, Set makes it t and returns nil; when it is t already, Set
\* returns "redundant --is-<t> flag"; when it is another type, Set returns
\* "--is-<t> cannot be used together with" the three other flags.  When Set
\* returns an error the apps are as they were.
C27_SetImageTypeOnce ==
    Called("Set") =>
        IF call.al = <<>>
        THEN /\ ret.err = "--is-" \o call.t \o " must follow an image"
             /\ ret.apps = call.al
        ELSE IF call.al[Len(call.al)].imType = "guess"
        THEN /\ ret.err = "nil"
             /\ ret.apps = [call.al EXCEPT ![Len(call.al)].imType = call.t]
        ELSE IF call.al[Len(call.al)].imType = call.t
        THEN /\ ret.err = "redundant --is-" \o call.t \o " flag"
             /\ ret.apps = call.al
        ELSE /\ ret.err = "--is-" \o call.t \o " cannot be used together with "
                             \o OtherTypeFlags[call.t]
             /\ ret.apps = call.al

====
